---- MODULE Spec2Model ----
(***************************************************************************)
(* Verification model of the ICT pre-market pipeline                       *)
(* (Comma0101/robinhood-performance-dash, backend/app/services).           *)
(*                                                                         *)
(* Two components are modelled so far:                                     *)
(*   - the Plan Validator  (langchain/coach.py, _validate_plan_status)     *)
(*   - the Scenario Builder (ict/pre_market_routine.py,                    *)
(*     _step6_trade_plan, _build_long_scenario, _build_short_scenario)     *)
(*                                                                         *)
(* Numbers.  Prices are exact decimals counted in ticks of 10^-5, so 1.0   *)
(* is ONE = 100000 ticks and one cent is CENT = 1000 ticks.  The program's *)
(* binary floats are modelled as exact decimal arithmetic; inputs lie on   *)
(* the cent grid, on which 0.382, 0.5 and 0.618 of a range are exact.      *)
(* round(x, 2) is modelled by Round2 (nearest cent, ties to even).         *)
(***************************************************************************)
EXTENDS Integers, Sequences, FiniteSets, TLC

VARIABLES
    \* ---- Plan Validator (one stored scenario, validated repeatedly) ----
    v_plan,        \* the stored scenario handed to the validator
    v_call,        \* the arguments of the latest call (or NoCall)
    v_result,      \* what the latest call returned (or raised)
    v_probe,       \* history: one earlier call with its outcome (or NoCall)
    \* ---- Scenario Builder (one run of _step6_trade_plan) ----
    b_in,          \* inputs of the run
    b_pc,          \* "idle" | "ready" | "built"
    b_long,        \* result of _build_long_scenario (with its locals)
    b_short        \* result of _build_short_scenario (with its locals)

v_vars == <<v_plan, v_call, v_result, v_probe>>
b_vars == <<b_in, b_pc, b_long, b_short>>

VARIABLES
    \* ---- Dealing-Range Builder (one run of _step3_dealing_range) ----
    d_in,          \* what the two daily fetches and the HTF analysis give
    d_pc,          \* "idle" | "ready" | "done"
    d_out          \* the zones returned, or the error propagated

d_vars == <<d_in, d_pc, d_out>>

VARIABLES
    \* ---- Day-Type Classifier (one run of _step5_day_type) ----
    t_in,          \* HTF bias, session sweeps, HTF order blocks and FVGs
    t_pc,          \* "idle" | "ready" | "done"
    t_out          \* the day type with the three scores behind it

t_vars == <<t_in, t_pc, t_out>>

VARIABLES
    \* ---- Bias Classifier (one run of ICTAnalyzer._determine_bias) ----
    a_df,          \* the bar frame handed to the classifier
    a_pc,          \* "idle" | "ready" | "done"
    a_out          \* the bias with the two scores behind it

a_vars == <<a_df, a_pc, a_out>>

VARIABLES
    \* ---- FVG Detector (detect_fvgs re-run as bars arrive) ----
    f_df,          \* the bar series so far
    f_lookback,    \* the lookback the detector is called with
    f_pc,          \* "idle" | "cold" | "warm": the series it started on
    f_fvgs         \* what detect_fvgs returned on f_df

f_vars == <<f_df, f_lookback, f_pc, f_fvgs>>

VARIABLES
    \* ---- Order-Block pruning (_remove_overlapping_obs) ----
    o_in,          \* the candidate blocks detect_order_blocks collected
    o_pc,          \* "idle" | "ready" | "done"
    o_out          \* the blocks retained

o_vars == <<o_in, o_pc, o_out>>
VARIABLES
    \* ---- Liquidity-zone merge (end of detect_liquidity_zones) ----
    l_in,          \* the zones collected from swing points and equal levels
    l_pc,          \* "idle" | "ready" | "done"
    l_out          \* the merged zones, strongest first

l_vars == <<l_in, l_pc, l_out>>

VARIABLES
    \* ---- Market-structure scanner (analyze_market_structure) ----
    s_df,          \* the bar frame handed to the scanner
    s_pc,          \* "idle" | "ready" | "done"
    s_out          \* the structure label returned

s_vars == <<s_df, s_pc, s_out>>

VARIABLES
    \* ---- Analysis pipeline (ICTAnalyzer.analyze on one bar table) ----
    p_table,       \* the caller's bar table: its rows and its columns
    p_given,       \* history: the table as the caller fetched it
    p_pc,          \* "idle" | "analyzing"
    p_ran          \* the components that have run on the table

p_vars == <<p_table, p_given, p_pc, p_ran>>

VARIABLES
    \* ---- Context cache of the coach (ICTCoachService.context_cache) ----
    c_cache,       \* key -> ContextSection
    c_now,         \* datetime.utcnow(), in seconds
    c_pending,     \* _get_or_build_section calls awaiting their builder
    c_last,        \* history: the last lookup hit or builder return
    c_pc           \* "idle" | "serving"

c_vars == <<c_cache, c_now, c_pending, c_last, c_pc>>

VARIABLES
    \* ---- fetch_ohlcv (one call of the data fetcher) ----
    h_attempt,     \* the loop variable `attempt`
    h_pc,          \* "idle" | "requesting" | "sleeping" | "parsing" | "done"
    h_history,     \* history: what each HTTP attempt ended with
    h_waits,       \* history: the seconds slept before each retry
    h_outcome      \* "none" | "data" | "mock" | "AlphaVantageError"

h_vars == <<h_attempt, h_pc, h_history, h_waits, h_outcome>>

vars == <<v_vars, b_vars, d_vars, t_vars, a_vars, f_vars, o_vars, l_vars, s_vars, p_vars, c_vars, h_vars>>

(***************************************************************************)
(* Optional values: Python's None against a present number.                *)
(***************************************************************************)
None == [some |-> FALSE, v |-> 0]
Some(n) == [some |-> TRUE, v |-> n]

\* Python truthiness of an optional number: None and 0 are falsy.
Truthy(o) == o.some /\ o.v # 0

(***************************************************************************)
(*                          PLAN VALIDATOR                                 *)
(***************************************************************************)

\* Largest level a stored scenario field takes in the validator's inputs.
MaxLevel == 3

Levels == 0..MaxLevel
LivePrices == 0..(MaxLevel + 1)
Directions == {"long", "short"}
OptLevels == {None} \cup {Some(n) : n \in Levels}

\* A stored scenario: report.long_scenario / report.short_scenario, an
\* Optional[Dict[str, Any]].  kind "None" is Python None, "empty" is {} and
\* "dict" a non-empty dict whose four fields may each be missing.
PlanNone == [kind |-> "None", high |-> None, low |-> None, stop_loss |-> None, invalidation |-> None]
PlanEmpty == [kind |-> "empty", high |-> None, low |-> None, stop_loss |-> None, invalidation |-> None]
Plans ==
    {PlanNone, PlanEmpty} \cup
    [kind : {"dict"}, high : OptLevels, low : OptLevels,
     stop_loss : OptLevels, invalidation : OptLevels]

NoArg == None
Returned(status, text, arg) ==
    [raised |-> FALSE, status |-> status, reason |-> [text |-> text, arg |-> arg]]
\* current_price <= None raises TypeError: no (status, reason) is returned.
Raised == [raised |-> TRUE, status |-> "TypeError", reason |-> [text |-> "TypeError", arg |-> NoArg]]

\* `x <= None` / `x >= None` raise; the flag says whether a comparison raises.
CmpRaises(o) == ~o.some

NoBreach == Returned("none", "no hard breach", NoArg)

\* 1. Check Invalidation (Hard Breach).  The comparison with a missing
\* invalidation is the first statement of either branch, so it raises for
\* every price.
hard_breach(plan, current_price, direction) ==
    LET stop_loss == plan.stop_loss
        invalidation == plan.invalidation
    IN
    IF CmpRaises(invalidation)
    THEN Raised
    ELSE IF direction = "long"
    THEN IF current_price <= invalidation.v
         THEN Returned("INVALIDATED", "Price hit invalidation", invalidation)
         ELSE IF current_price <= stop_loss.v
         THEN Returned("INVALIDATED", "Price hit stop loss", stop_loss)
         ELSE NoBreach
    ELSE IF current_price >= invalidation.v
         THEN Returned("INVALIDATED", "Price hit invalidation", invalidation)
         ELSE IF current_price >= stop_loss.v
         THEN Returned("INVALIDATED", "Price hit stop loss", stop_loss)
         ELSE NoBreach

\* entry_zone_status answering MISSED once the price has left the zone on
\* the favourable side.
entry_zone_status_missed(plan, current_price, direction) ==
    LET entry_high == plan.high
        entry_low == plan.low
    IN
    IF direction = "long"
    THEN IF entry_low.v <= current_price /\ current_price <= entry_high.v
         THEN Returned("ACTIVE", "Price is IN the entry zone!", NoArg)
         ELSE IF current_price > entry_high.v
         THEN Returned("MISSED", "Price ran away from zone", entry_high)
         ELSE Returned("ACTIVE", "Price slightly below zone but holding stop", NoArg)
    ELSE IF entry_low.v <= current_price /\ current_price <= entry_high.v
         THEN Returned("ACTIVE", "Price is IN the entry zone!", NoArg)
         ELSE IF current_price < entry_low.v
         THEN Returned("MISSED", "Price ran away from zone", entry_low)
         ELSE Returned("ACTIVE", "Price slightly above zone but holding stop", NoArg)

\* 2. Check Entry Zone (Active vs Waiting).
entry_zone_status(plan, current_price, direction) ==
    LET entry_high == plan.high
        entry_low == plan.low
    IN
    IF direction = "long"
    THEN IF entry_low.v <= current_price /\ current_price <= entry_high.v
         THEN Returned("ACTIVE", "Price is IN the entry zone!", NoArg)
         ELSE IF current_price > entry_high.v
         THEN Returned("WAITING", "Price above zone, waiting for pullback", entry_high)
         ELSE Returned("ACTIVE", "Price slightly below zone but holding stop", NoArg)
    ELSE IF entry_low.v <= current_price /\ current_price <= entry_high.v
         THEN Returned("ACTIVE", "Price is IN the entry zone!", NoArg)
         ELSE IF current_price < entry_low.v
         THEN Returned("WAITING", "Price below zone, waiting for pullback", entry_low)
         ELSE Returned("ACTIVE", "Price slightly above zone but holding stop", NoArg)

\* A validator that latches: once it has answered INVALIDATED it keeps
\* answering so.
validate_plan_status_latched(plan, current_price, direction) ==
    IF v_result.status = "INVALIDATED"
    THEN v_result
    ELSE IF plan.kind # "dict"
    THEN Returned("N/A", "No plan", NoArg)
    ELSE IF ~(Truthy(plan.high) /\ Truthy(plan.low) /\ Truthy(plan.stop_loss))
    THEN Returned("N/A", "Incomplete plan data", NoArg)
    ELSE IF hard_breach(plan, current_price, direction) # NoBreach
    THEN hard_breach(plan, current_price, direction)
    ELSE entry_zone_status(plan, current_price, direction)

\* _validate_plan_status: `not plan` is true of None and of {}; the
\* completeness test is Python truthiness, so a field equal to 0 counts as
\* missing.
validate_plan_status(plan, current_price, direction) ==
    IF plan.kind # "dict"
    THEN Returned("N/A", "No plan", NoArg)
    ELSE IF ~(Truthy(plan.high) /\ Truthy(plan.low) /\ Truthy(plan.stop_loss))
    THEN Returned("N/A", "Incomplete plan data", NoArg)
    ELSE IF hard_breach(plan, current_price, direction) # NoBreach
    THEN hard_breach(plan, current_price, direction)
    ELSE entry_zone_status(plan, current_price, direction)

\* Before the first call there is no outcome.
NoResult == [raised |-> FALSE, status |-> "NONE", reason |-> [text |-> "not called", arg |-> NoArg]]
NoCall == [made |-> FALSE, price |-> 0, direction |-> "long", result |-> NoResult]
Call(price, direction, result) ==
    [made |-> TRUE, price |-> price, direction |-> direction, result |-> result]

ValidatorIdle ==
    /\ v_plan = PlanNone
    /\ v_call = NoCall
    /\ v_result = NoResult
    /\ v_probe = NoCall

ValidatorInit ==
    /\ v_plan \in Plans
    /\ v_call = NoCall
    /\ v_result = NoResult
    /\ v_probe = NoCall

\* One validation call of the kill-zone context builder on the stored
\* scenario with a fresh price.  v_probe is a history variable: it keeps the
\* previous call or whatever it held before.
Validate(price, direction) ==
    /\ v_result' = validate_plan_status(v_plan, price, direction)
    /\ v_call' = Call(price, direction, v_result')
    /\ v_probe' \in {v_probe, v_call}
    /\ UNCHANGED v_plan

ValidatorNext ==
    \E price \in LivePrices, direction \in Directions : Validate(price, direction)

(***************************************************************************)
(*                          SCENARIO BUILDER                               *)
(***************************************************************************)

\* Ticks per cent and per 1.0 (the unit of the model's decimals).
CENT == 10 * 10 * 10
ONE == 100 * CENT

\* round(x, 2): the nearest multiple of a cent, an exact tie going to the
\* even cent.
Round2(x) ==
    LET q == x \div CENT
        r == x % CENT
    IN  IF 2 * r < CENT THEN q * CENT
        ELSE IF 2 * r > CENT THEN (q + 1) * CENT
        ELSE IF q % 2 = 0 THEN q * CENT ELSE (q + 1) * CENT

\* round(n / d, 2) for d > 0, in hundredths.
RoundRatio2(n, d) ==
    LET m == 100 * n
        q == m \div d
        r == m % d
    IN  IF 2 * r < d THEN q
        ELSE IF 2 * r > d THEN q + 1
        ELSE IF q % 2 = 0 THEN q ELSE q + 1

\* sorted(xs) and sorted(xs, reverse=True) on a short list.
RECURSIVE InsertAsc(_, _)
InsertAsc(x, s) ==
    IF s = <<>> THEN <<x>>
    ELSE IF x < Head(s) THEN <<x>> \o s
    ELSE <<Head(s)>> \o InsertAsc(x, Tail(s))

RECURSIVE SortAsc(_)
SortAsc(s) == IF s = <<>> THEN <<>> ELSE InsertAsc(Head(s), SortAsc(Tail(s)))

Reverse(s) == [i \in 1..Len(s) |-> s[Len(s) + 1 - i]]
SortDesc(s) == Reverse(SortAsc(s))

\* while len(targets) < 3: targets.append(targets[-1] + step)
RECURSIVE PadTargets(_, _)
PadTargets(targets, step) ==
    IF Len(targets) >= 3 THEN targets
    ELSE PadTargets(Append(targets, targets[Len(targets)] + step), step)

\* max(fs, key=lambda x: x.high) and min(fs, key=lambda x: x.low): the first
\* element of the list that attains the extreme key.
MaxByHigh(fs) ==
    LET best == CHOOSE i \in 1..Len(fs) :
                   /\ \A j \in 1..Len(fs) : fs[j].high <= fs[i].high
                   /\ \A j \in 1..(i - 1) : fs[j].high < fs[i].high
    IN  fs[best]

MinByLow(fs) ==
    LET best == CHOOSE i \in 1..Len(fs) :
                   /\ \A j \in 1..Len(fs) : fs[j].low >= fs[i].low
                   /\ \A j \in 1..(i - 1) : fs[j].low > fs[i].low
    IN  fs[best]

\* adr = 5.0, the placeholder both builders use.
ADR == 5 * ONE

\* The zones with the ratios cut to two decimals (0.62 / 0.38).
dealing_range_zones_two_decimals(high, low) ==
    LET range_size == high - low
    IN  [high |-> high,
         low |-> low,
         equilibrium |-> low + (range_size * 500) \div 1000,
         premium |-> low + (range_size * 620) \div 1000,
         discount |-> low + (range_size * 380) \div 1000]

\* _step3_dealing_range, "Calculate zones".
dealing_range_zones(high, low) ==
    LET range_size == high - low
    IN  [high |-> high,
         low |-> low,
         equilibrium |-> low + (range_size * 500) \div 1000,
         premium |-> low + (range_size * 618) \div 1000,
         discount |-> low + (range_size * 382) \div 1000]

\* The reachability test with the gate left open.
is_statistically_reachable_always(target_price, current_price, adr) == TRUE

is_statistically_reachable(target_price, current_price, adr) ==
    IF adr <= 0 THEN TRUE
    ELSE LET max_reach == adr \div 2
             distance == IF target_price >= current_price
                         THEN target_price - current_price
                         ELSE current_price - target_price
         IN  ~(distance > max_reach)

NoFvg == [high |-> 0, low |-> 0, direction |-> "neutral", mitigated |-> FALSE, invalidated |-> FALSE]

NoSelection ==
    [has_fvg |-> FALSE, selected_fvg |-> NoFvg, is_continuation |-> FALSE,
     market_execution_mode |-> FALSE, setup_quality |-> "C",
     entry_type |-> "Math Level"]

Selected(f, continuation, quality, label) ==
    [has_fvg |-> TRUE, selected_fvg |-> f, is_continuation |-> continuation,
     market_execution_mode |-> FALSE, setup_quality |-> quality,
     entry_type |-> label]

MarketExecution == [NoSelection EXCEPT !.market_execution_mode = TRUE]

(***************************************************************************)
(* _build_long_scenario                                                    *)
(***************************************************************************)

\* 1. "Ideal" candidates: bullish, un-invalidated, below equilibrium and
\* statistically reachable.
long_ideal_fvgs(current_price, dealing_range, fvgs) ==
    SelectSeq(fvgs, LAMBDA f :
        /\ f.direction = "bullish"
        /\ ~f.invalidated
        /\ f.high < dealing_range.equilibrium
        /\ is_statistically_reachable(f.high, current_price, ADR))

\* 2. "Continuation" candidates: intraday bullish un-invalidated FVGs below
\* the current price.
long_continuation_fvgs(current_price, intraday_fvgs) ==
    SelectSeq(intraday_fvgs, LAMBDA f :
        /\ f.direction = "bullish"
        /\ ~f.invalidated
        /\ f.high < current_price)

\* 3. "Far away" arrays: the ideal filter without the reachability test.
long_far_fvgs(dealing_range, fvgs) ==
    SelectSeq(fvgs, LAMBDA f :
        /\ f.direction = "bullish"
        /\ ~f.invalidated
        /\ f.high < dealing_range.equilibrium)

\* long_select looking for a continuation FVG before an ideal one.
long_select_continuation_first(current_price, dealing_range, fvgs, intraday_fvgs) ==
    LET ideal_fvgs == long_ideal_fvgs(current_price, dealing_range, fvgs)
        mitigated_fvgs == SelectSeq(ideal_fvgs, LAMBDA f : f.mitigated)
        continuation_fvgs == long_continuation_fvgs(current_price, intraday_fvgs)
        far_fvgs == long_far_fvgs(dealing_range, fvgs)
        first ==
            IF intraday_fvgs # <<>> /\ continuation_fvgs # <<>>
            THEN Selected(MaxByHigh(continuation_fvgs), TRUE, "B", "Intraday Continuation FVG")
            ELSE IF ideal_fvgs # <<>>
            THEN IF mitigated_fvgs # <<>>
                 THEN Selected(MaxByHigh(mitigated_fvgs), FALSE, "A", "Bullish HTF FVG (Retest)")
                 ELSE Selected(MaxByHigh(ideal_fvgs), FALSE, "A", "Bullish HTF FVG")
            ELSE NoSelection
    IN  IF ~first.has_fvg /\ far_fvgs # <<>> THEN MarketExecution ELSE first

\* Stages 1 to 3: which FVG, if any, backs the entry.
long_select(current_price, dealing_range, fvgs, intraday_fvgs) ==
    LET ideal_fvgs == long_ideal_fvgs(current_price, dealing_range, fvgs)
        mitigated_fvgs == SelectSeq(ideal_fvgs, LAMBDA f : f.mitigated)
        continuation_fvgs == long_continuation_fvgs(current_price, intraday_fvgs)
        far_fvgs == long_far_fvgs(dealing_range, fvgs)
        first ==
            IF ideal_fvgs # <<>>
            THEN IF mitigated_fvgs # <<>>
                 THEN Selected(MaxByHigh(mitigated_fvgs), FALSE, "A", "Bullish HTF FVG (Retest)")
                 ELSE Selected(MaxByHigh(ideal_fvgs), FALSE, "A", "Bullish HTF FVG")
            ELSE IF intraday_fvgs # <<>> /\ continuation_fvgs # <<>>
            THEN Selected(MaxByHigh(continuation_fvgs), TRUE, "B", "Intraday Continuation FVG")
            ELSE NoSelection
    IN  IF ~first.has_fvg /\ far_fvgs # <<>> THEN MarketExecution ELSE first

\* long_entry with the market-execution stop at the price itself.
long_entry_stop_at_price(sel, current_price, dealing_range) ==
    IF sel.has_fvg
    THEN [entry_high |-> sel.selected_fvg.high,
          entry_low |-> sel.selected_fvg.low,
          stop_loss |-> sel.selected_fvg.low - ONE,
          setup_quality |-> sel.setup_quality,
          entry_type |-> sel.entry_type]
    ELSE IF sel.market_execution_mode
    THEN [entry_high |-> current_price,
          entry_low |-> current_price,
          stop_loss |-> current_price,
          setup_quality |-> "C+",
          entry_type |-> "Market Execution (Wait for MSS)"]
    ELSE LET entry_level == dealing_range.discount
         IN  [entry_high |-> entry_level + ONE,
              entry_low |-> entry_level - ONE,
              stop_loss |-> (entry_level - ONE) - (5 * ONE) \div 2,
              setup_quality |-> sel.setup_quality,
              entry_type |-> "Discount Level (Math)"]

\* 4. Finalize entry parameters.
long_entry(sel, current_price, dealing_range) ==
    IF sel.has_fvg
    THEN [entry_high |-> sel.selected_fvg.high,
          entry_low |-> sel.selected_fvg.low,
          stop_loss |-> sel.selected_fvg.low - ONE,
          setup_quality |-> sel.setup_quality,
          entry_type |-> sel.entry_type]
    ELSE IF sel.market_execution_mode
    THEN [entry_high |-> current_price,
          entry_low |-> current_price,
          stop_loss |-> current_price - 2 * ONE,
          setup_quality |-> "C+",
          entry_type |-> "Market Execution (Wait for MSS)"]
    ELSE LET entry_level == dealing_range.discount
         IN  [entry_high |-> entry_level + ONE,
              entry_low |-> entry_level - ONE,
              stop_loss |-> (entry_level - ONE) - (5 * ONE) \div 2,
              setup_quality |-> sel.setup_quality,
              entry_type |-> "Discount Level (Math)"]

\* Targets: equilibrium, premium, range high above the entry; a projected 2R
\* target when none qualifies; padded to three.
long_targets(entry_high, stop_loss, dealing_range) ==
    LET potential_targets ==
            <<dealing_range.equilibrium, dealing_range.premium, dealing_range.high>>
        valid_targets == SelectSeq(potential_targets, LAMBDA t : t > entry_high)
        used == IF valid_targets = <<>>
                THEN <<entry_high + (entry_high - stop_loss) * 2>>
                ELSE valid_targets
    IN  PadTargets(SortAsc(used), ONE)

\* grade_scenario invalidating at rr <= 1.0 instead of rr < 1.0.
grade_scenario_inclusive(quality, is_continuation, risk, first_reward, second_reward) ==
    LET invalid == risk > 0 /\ first_reward <= risk
        retarget == ~invalid /\ risk > 0 /\ first_reward < 2 * risk
        q1 == IF invalid THEN "INVALID"
              ELSE IF retarget /\ 2 * second_reward < 3 * risk THEN "C-"
              ELSE quality
        q2 == IF is_continuation /\ risk > 0 /\ q1 # "INVALID"
                 /\ 2 * first_reward < 3 * risk
              THEN "C-"
              ELSE q1
    IN  [setup_quality |-> q2,
         reward |-> IF retarget THEN second_reward ELSE first_reward]

\* grade_scenario retargeting through a scratch variable, so that the reward
\* reported stays the first target's.
grade_scenario_first_reward(quality, is_continuation, risk, first_reward, second_reward) ==
    LET invalid == risk > 0 /\ first_reward < risk
        retarget == ~invalid /\ risk > 0 /\ first_reward < 2 * risk
        q1 == IF invalid THEN "INVALID"
              ELSE IF retarget /\ 2 * second_reward < 3 * risk THEN "C-"
              ELSE quality
        q2 == IF is_continuation /\ risk > 0 /\ q1 # "INVALID"
                 /\ 2 * first_reward < 3 * risk
              THEN "C-"
              ELSE q1
    IN  [setup_quality |-> q2, reward |-> first_reward]

\* grade_scenario without the continuation room-to-run check.
grade_scenario_no_room_check(quality, is_continuation, risk, first_reward, second_reward) ==
    LET invalid == risk > 0 /\ first_reward < risk
        retarget == ~invalid /\ risk > 0 /\ first_reward < 2 * risk
        q1 == IF invalid THEN "INVALID"
              ELSE IF retarget /\ 2 * second_reward < 3 * risk THEN "C-"
              ELSE quality
    IN  [setup_quality |-> q1,
         reward |-> IF retarget THEN second_reward ELSE first_reward]

\* Risk/Reward & Room to Run check.  rr < k is compared as reward < k * risk
\* (risk > 0).  Yields the final grade and the reward the reported
\* risk_reward is computed from.
grade_scenario(quality, is_continuation, risk, first_reward, second_reward) ==
    LET invalid == risk > 0 /\ first_reward < risk
        retarget == ~invalid /\ risk > 0 /\ first_reward < 2 * risk
        q1 == IF invalid THEN "INVALID"
              ELSE IF retarget /\ 2 * second_reward < 3 * risk THEN "C-"
              ELSE quality
        q2 == IF is_continuation /\ risk > 0 /\ q1 # "INVALID"
                 /\ 2 * first_reward < 3 * risk
              THEN "C-"
              ELSE q1
    IN  [setup_quality |-> q2,
         reward |-> IF retarget THEN second_reward ELSE first_reward]

Scenario(sel, entry, targets, invalidation, risk, first_reward, second_reward, reclaim) ==
    LET g == grade_scenario(entry.setup_quality, sel.is_continuation, risk,
                            first_reward, second_reward)
    IN  [\* locals of the builder, before rounding
         has_fvg |-> sel.has_fvg,
         selected_fvg |-> sel.selected_fvg,
         is_continuation |-> sel.is_continuation,
         market_execution_mode |-> sel.market_execution_mode,
         entry_high |-> entry.entry_high,
         entry_low |-> entry.entry_low,
         raw_stop_loss |-> entry.stop_loss,
         raw_targets |-> targets,
         risk |-> risk,
         reward |-> g.reward,
         reclaim |-> reclaim,
         \* the returned dict
         entry_zone |-> [high |-> Round2(entry.entry_high), low |-> Round2(entry.entry_low)],
         entry_type |-> entry.entry_type,
         stop_loss |-> Round2(entry.stop_loss),
         targets |-> [i \in 1..Len(targets) |-> Round2(targets[i])],
         invalidation |-> Round2(invalidation),
         risk_reward |-> IF risk > 0 THEN RoundRatio2(g.reward, risk) ELSE 0,
         setup_quality |-> g.setup_quality]

build_long_scenario(current_price, dealing_range, fvgs, intraday_fvgs) ==
    LET sel == long_select(current_price, dealing_range, fvgs, intraday_fvgs)
        entry == long_entry(sel, current_price, dealing_range)
        reclaim == current_price < entry.entry_low /\ ~sel.market_execution_mode
        targets == long_targets(entry.entry_high, entry.stop_loss, dealing_range)
        invalidation == dealing_range.low - ONE
        risk == entry.entry_high - entry.stop_loss
    IN  Scenario(sel, entry, targets, invalidation, risk,
                 targets[1] - entry.entry_high, targets[2] - entry.entry_high, reclaim)

(***************************************************************************)
(* _build_short_scenario                                                   *)
(***************************************************************************)

short_ideal_fvgs(current_price, dealing_range, fvgs) ==
    SelectSeq(fvgs, LAMBDA f :
        /\ f.direction = "bearish"
        /\ ~f.invalidated
        /\ f.low > dealing_range.equilibrium
        /\ is_statistically_reachable(f.low, current_price, ADR))

short_continuation_fvgs(current_price, intraday_fvgs) ==
    SelectSeq(intraday_fvgs, LAMBDA f :
        /\ f.direction = "bearish"
        /\ ~f.invalidated
        /\ f.low > current_price)

short_far_fvgs(dealing_range, fvgs) ==
    SelectSeq(fvgs, LAMBDA f :
        /\ f.direction = "bearish"
        /\ ~f.invalidated
        /\ f.low > dealing_range.equilibrium)

short_select(current_price, dealing_range, fvgs, intraday_fvgs) ==
    LET ideal_fvgs == short_ideal_fvgs(current_price, dealing_range, fvgs)
        mitigated_fvgs == SelectSeq(ideal_fvgs, LAMBDA f : f.mitigated)
        continuation_fvgs == short_continuation_fvgs(current_price, intraday_fvgs)
        far_fvgs == short_far_fvgs(dealing_range, fvgs)
        first ==
            IF ideal_fvgs # <<>>
            THEN IF mitigated_fvgs # <<>>
                 THEN Selected(MinByLow(mitigated_fvgs), FALSE, "A", "Bearish HTF FVG (Retest)")
                 ELSE Selected(MinByLow(ideal_fvgs), FALSE, "A", "Bearish HTF FVG")
            ELSE IF intraday_fvgs # <<>> /\ continuation_fvgs # <<>>
            THEN Selected(MinByLow(continuation_fvgs), TRUE, "B", "Intraday Continuation FVG")
            ELSE NoSelection
    IN  IF ~first.has_fvg /\ far_fvgs # <<>> THEN MarketExecution ELSE first

short_entry(sel, current_price, dealing_range) ==
    IF sel.has_fvg
    THEN [entry_high |-> sel.selected_fvg.high,
          entry_low |-> sel.selected_fvg.low,
          stop_loss |-> sel.selected_fvg.high + ONE,
          setup_quality |-> sel.setup_quality,
          entry_type |-> sel.entry_type]
    ELSE IF sel.market_execution_mode
    THEN [entry_high |-> current_price,
          entry_low |-> current_price,
          stop_loss |-> current_price + 2 * ONE,
          setup_quality |-> "C+",
          entry_type |-> "Market Execution (Wait for MSS)"]
    ELSE LET entry_level == dealing_range.premium
         IN  [entry_high |-> entry_level + ONE,
              entry_low |-> entry_level - ONE,
              stop_loss |-> (entry_level + ONE) + (5 * ONE) \div 2,
              setup_quality |-> sel.setup_quality,
              entry_type |-> "Premium Level (Math)"]

short_targets(entry_low, stop_loss, dealing_range) ==
    LET potential_targets ==
            <<dealing_range.equilibrium, dealing_range.discount, dealing_range.low>>
        valid_targets == SelectSeq(potential_targets, LAMBDA t : t < entry_low)
        used == IF valid_targets = <<>>
                THEN <<entry_low - (stop_loss - entry_low) * 2>>
                ELSE valid_targets
    IN  PadTargets(SortDesc(used), 0 - ONE)

build_short_scenario(current_price, dealing_range, fvgs, intraday_fvgs) ==
    LET sel == short_select(current_price, dealing_range, fvgs, intraday_fvgs)
        entry == short_entry(sel, current_price, dealing_range)
        reclaim == current_price > entry.entry_high /\ ~sel.market_execution_mode
        targets == short_targets(entry.entry_low, entry.stop_loss, dealing_range)
        invalidation == dealing_range.high + ONE
        risk == entry.stop_loss - entry.entry_low
    IN  Scenario(sel, entry, targets, invalidation, risk,
                 entry.entry_low - targets[1], entry.entry_low - targets[2], reclaim)

(***************************************************************************)
(* Inputs of one run of _step6_trade_plan                                  *)
(***************************************************************************)

\* Most FVGs the run sees, intraday and higher-timeframe lists together.
MaxFvgs == 2

\* Prices, in units of 1.0, that the last 5m close takes.
PriceUnits == {9, 11, 12, 14, 16, 19}
CurrentPrices == {p * ONE : p \in PriceUnits}

\* Dealing ranges <<low, high>> in units of 1.0: a wide one, a narrow one and
\* a degenerate one (a daily bar with high = low).  All have equilibrium 14.
RangeUnits == {<<8, 20>>, <<12, 16>>, <<14, 14>>}

\* Gap zones <<low, high>> in units of 1.0: two on the discount side of the
\* equilibrium and one on the premium side.
ZoneUnits == {<<10, 11>>, <<11, 12>>, <<17, 18>>}

\* What detect_fvgs can emit on such a zone: high > low, either direction,
\* either flag.
FvgUniverse ==
    {[high |-> z[2] * ONE, low |-> z[1] * ONE, direction |-> d,
      mitigated |-> m, invalidated |-> i] :
        z \in ZoneUnits, d \in {"bullish", "bearish"}, m \in BOOLEAN, i \in BOOLEAN}

FvgLists(n) == UNION {[1..k -> FvgUniverse] : k \in 0..n}

NoScenario == [setup_quality |-> "NONE"]
NoInput == [current_price |-> 0, high |-> 0, low |-> 0, intraday_fvgs |-> <<>>, htf_fvgs |-> <<>>]

BuilderIdle ==
    /\ b_in = NoInput
    /\ b_pc = "idle"
    /\ b_long = NoScenario
    /\ b_short = NoScenario

BuilderInit ==
    /\ b_pc = "ready"
    /\ b_long = NoScenario
    /\ b_short = NoScenario
    /\ \E p \in CurrentPrices, r \in RangeUnits, n \in 0..MaxFvgs :
         \E intraday \in FvgLists(n), htf \in FvgLists(MaxFvgs - n) :
            /\ Len(intraday) = n
            /\ b_in = [current_price |-> p, high |-> r[2] * ONE, low |-> r[1] * ONE,
                       intraday_fvgs |-> intraday, htf_fvgs |-> htf]

\* _step6_trade_plan: both scenarios are built from the same price, the same
\* dealing range and all_fvgs = intraday_fvgs + htf_fvgs.
Step6TradePlan ==
    /\ b_pc = "ready"
    /\ LET dealing_range == dealing_range_zones(b_in.high, b_in.low)
           all_fvgs == b_in.intraday_fvgs \o b_in.htf_fvgs
       IN  /\ b_long' = build_long_scenario(b_in.current_price, dealing_range,
                                            all_fvgs, b_in.intraday_fvgs)
           /\ b_short' = build_short_scenario(b_in.current_price, dealing_range,
                                              all_fvgs, b_in.intraday_fvgs)
    /\ b_pc' = "built"
    /\ UNCHANGED b_in

(***************************************************************************)
(*                        DEALING-RANGE BUILDER                            *)
(***************************************************************************)

\* A daily bar: its date in days relative to today_ny, its high and low.
Bar(date, high, low) == [date |-> date, high |-> high, low |-> low]

\* What fetch_ohlcv gives: it raises, or it returns a frame of bars.
FetchRaised == [raised |-> TRUE, bars |-> <<>>]
Fetched(bars) == [raised |-> FALSE, bars |-> bars]

\* dfd.sort_values('timestamp')
RECURSIVE InsertByTimestamp(_, _)
InsertByTimestamp(x, s) ==
    IF s = <<>> THEN <<x>>
    ELSE IF x.date < Head(s).date THEN <<x>> \o s
    ELSE <<Head(s)>> \o InsertByTimestamp(x, Tail(s))

RECURSIVE SortByTimestamp(_)
SortByTimestamp(s) ==
    IF s = <<>> THEN <<>>
    ELSE InsertByTimestamp(s[Len(s)], SortByTimestamp(SubSeq(s, 1, Len(s) - 1)))

\* high / low while they are still None, and once they are set.
NoRange == [some |-> FALSE, high |-> 0, low |-> 0]
RangeOf(high, low) == [some |-> TRUE, high |-> high, low |-> low]

\* Preferred stage reading a bar that is still in progress (today's).
prev_day_range_latest_row(daily, today_ny) ==
    IF daily.raised \/ daily.bars = <<>> THEN NoRange
    ELSE LET dfd == SortByTimestamp(daily.bars)
         IN  RangeOf(dfd[Len(dfd)].high, dfd[Len(dfd)].low)

\* Preferred: previous day high/low.  Any exception of the try block (the
\* fetch raising, iloc[-1] on an empty frame) leaves high = low = None.
prev_day_range(daily, today_ny) ==
    IF daily.raised \/ daily.bars = <<>> THEN NoRange
    ELSE LET dfd == SortByTimestamp(daily.bars)
             last_row == dfd[Len(dfd)]
         IN  IF last_row.date >= today_ny
             THEN IF Len(dfd) > 1
                  THEN RangeOf(dfd[Len(dfd) - 1].high, dfd[Len(dfd) - 1].low)
                  ELSE NoRange
             ELSE RangeOf(last_row.high, last_row.low)

\* dfd['high'].max() and dfd['low'].min()
MaxHigh(bars) == CHOOSE h \in {bars[i].high : i \in 1..Len(bars)} :
                    \A i \in 1..Len(bars) : bars[i].high <= h
MinLow(bars) == CHOOSE l \in {bars[i].low : i \in 1..Len(bars)} :
                    \A i \in 1..Len(bars) : bars[i].low >= l

NoZones == [high |-> 0, low |-> 0, equilibrium |-> 0, premium |-> 0, discount |-> 0,
            source |-> "none"]
ZonesReturned(z, source) ==
    [raised |-> FALSE,
     zones |-> [high |-> z.high, low |-> z.low, equilibrium |-> z.equilibrium,
                premium |-> z.premium, discount |-> z.discount, source |-> source]]
ZonesRaised == [raised |-> TRUE, zones |-> NoZones]

\* _step3_dealing_range.  dealing_range is htf_data.get('dealing_range'):
\* None, or the high and low ICTAnalyzer._find_dealing_range found.  The
\* trailing-50 fetch is made outside any try block, and a frame without
\* rows has no 'high' column to take the max of.
step3_dealing_range(daily, dealing_range, recent, today_ny) ==
    LET prev == prev_day_range(daily, today_ny)
    IN  IF prev.some
        THEN ZonesReturned(dealing_range_zones(prev.high, prev.low), "prev_day")
        ELSE IF dealing_range.some
        THEN ZonesReturned(dealing_range_zones(dealing_range.high, dealing_range.low), "htf")
        ELSE IF recent.raised \/ recent.bars = <<>>
        THEN ZonesRaised
        ELSE ZonesReturned(dealing_range_zones(MaxHigh(recent.bars), MinLow(recent.bars)),
                           "recent_1D")

(***************************************************************************)
(* Inputs of one run of _step3_dealing_range                               *)
(***************************************************************************)

\* Most bars a daily fetch returns.
MaxDailyBars == 2

\* today_ny, the day the dates of the bars are counted from.
TodayNy == 0
BarDates == {-2, -1, 0}

\* Bar and range extremes <<low, high>> in cents: the 100 / 110 range, a
\* range one cent wide and a degenerate one.
BarCents == {<<10000, 11000>>, <<10000, 10001>>, <<10400, 10400>>}
HtfCents == {<<9500, 12000>>, <<9900, 9900>>}

DailyBars == {Bar(d, c[2] * CENT, c[1] * CENT) : d \in BarDates, c \in BarCents}

\* Frames of at most n bars; a daily frame has one bar per date.
DailyFrames(n) ==
    {bars \in UNION {[1..k -> DailyBars] : k \in 0..n} :
        \A i, j \in 1..Len(bars) : i # j => bars[i].date # bars[j].date}

DealingRangeInputs ==
    [daily : {FetchRaised} \cup {Fetched(bars) : bars \in DailyFrames(MaxDailyBars)},
     htf : {NoRange} \cup {RangeOf(c[2] * CENT, c[1] * CENT) : c \in HtfCents},
     recent : {FetchRaised} \cup {Fetched(bars) : bars \in DailyFrames(MaxDailyBars)}]

NoDealingRangeInput == [daily |-> FetchRaised, htf |-> NoRange, recent |-> FetchRaised]
NoDealingRange == [raised |-> FALSE, zones |-> NoZones]

DealingRangeIdle ==
    /\ d_in = NoDealingRangeInput
    /\ d_pc = "idle"
    /\ d_out = NoDealingRange

DealingRangeInit ==
    /\ d_in \in DealingRangeInputs
    /\ d_pc = "ready"
    /\ d_out = NoDealingRange

Step3DealingRange ==
    /\ d_pc = "ready"
    /\ d_out' = step3_dealing_range(d_in.daily, d_in.htf, d_in.recent, TodayNy)
    /\ d_pc' = "done"
    /\ UNCHANGED d_in

(***************************************************************************)
(*                         DAY-TYPE CLASSIFIER                             *)
(***************************************************************************)

Max2(a, b) == IF a >= b THEN a ELSE b

\* any(s['type'] == t for s in sweeps)
Swept(sweeps, t) == \E i \in 1..Len(sweeps) : sweeps[i] = t

\* strength > 0.7, strengths in hundredths.
StrongThreshold == 70

\* The three scores of _step5_day_type, with what they were built from.
day_type_scores(htf_bias, sweeps, order_blocks, fvgs) ==
    LET bsl_swept == Swept(sweeps, "BSL")
        ssl_swept == Swept(sweeps, "SSL")
        strong_obs == SelectSeq(order_blocks, LAMBDA strength : strength > StrongThreshold)
        unfilled_fvgs == SelectSeq(fvgs, LAMBDA filled : ~filled)
    IN  [trend_score |->
             (IF htf_bias # "neutral" THEN 2 ELSE 0)
           + (IF ~(bsl_swept /\ ssl_swept) /\ (bsl_swept \/ ssl_swept) THEN 2 ELSE 0)
           + (IF Len(unfilled_fvgs) > 2 THEN 1 ELSE 0),
         reversal_score |->
             (IF bsl_swept /\ ssl_swept THEN 3 ELSE 0)
           + (IF Len(strong_obs) > 0 THEN 1 ELSE 0),
         consolidation_score |->
             (IF htf_bias # "neutral" THEN 0 ELSE 2)
           + (IF ~(bsl_swept \/ ssl_swept) THEN 2 ELSE 0)]

\* "Determine day type" accepting a tie for the highest score.
determine_day_type_no_margin(trend_score, reversal_score, consolidation_score) ==
    IF trend_score >= Max2(reversal_score, consolidation_score) THEN "trend"
    ELSE IF reversal_score >= Max2(trend_score, consolidation_score) THEN "reversal"
    ELSE "consolidation"

\* "Determine day type".
determine_day_type(trend_score, reversal_score, consolidation_score) ==
    IF trend_score >= Max2(reversal_score, consolidation_score) + 1 THEN "trend"
    ELSE IF reversal_score >= Max2(trend_score, consolidation_score) + 1 THEN "reversal"
    ELSE "consolidation"

step5_day_type(htf_bias, sweeps, order_blocks, fvgs) ==
    LET sc == day_type_scores(htf_bias, sweeps, order_blocks, fvgs)
    IN  [day_type |-> determine_day_type(sc.trend_score, sc.reversal_score,
                                         sc.consolidation_score),
         trend_score |-> sc.trend_score,
         reversal_score |-> sc.reversal_score,
         consolidation_score |-> sc.consolidation_score]

(***************************************************************************)
(* Inputs of one run of _step5_day_type                                    *)
(***************************************************************************)

\* Most HTF order blocks and most HTF FVGs.
MaxOrderBlocks == 2
MaxHtfFvgs == 3

BiasValues == {"bullish", "bearish", "neutral"}
\* _detect_liquidity_sweeps: a BSL entry if the Asian high was swept, then
\* an SSL entry if the Asian low was.
SweepLists == {<<>>, <<"BSL">>, <<"SSL">>, <<"BSL", "SSL">>}
\* Order-block strengths in hundredths, on either side of 0.7 and on it.
Strengths == {50, 70, 80}

SeqsUpTo(S, n) == UNION {[1..k -> S] : k \in 0..n}

DayTypeInputs ==
    [htf_bias : BiasValues,
     sweeps : SweepLists,
     order_blocks : SeqsUpTo(Strengths, MaxOrderBlocks),
     fvgs : SeqsUpTo(BOOLEAN, MaxHtfFvgs)]

NoDayTypeInput == [htf_bias |-> "neutral", sweeps |-> <<>>, order_blocks |-> <<>>, fvgs |-> <<>>]
NoDayType == [day_type |-> "none", trend_score |-> 0, reversal_score |-> 0,
              consolidation_score |-> 0]

DayTypeIdle ==
    /\ t_in = NoDayTypeInput
    /\ t_pc = "idle"
    /\ t_out = NoDayType

DayTypeInit ==
    /\ t_in \in DayTypeInputs
    /\ t_pc = "ready"
    /\ t_out = NoDayType

Step5DayType ==
    /\ t_pc = "ready"
    /\ t_out' = step5_day_type(t_in.htf_bias, t_in.sweeps, t_in.order_blocks, t_in.fvgs)
    /\ t_pc' = "done"
    /\ UNCHANGED t_in

(***************************************************************************)
(*                           BIAS CLASSIFIER                               *)
(***************************************************************************)

\* A float that may be NaN: the rolling mean of a window the frame does not
\* fill, the max / min of an empty slice.  Every comparison with NaN is
\* false.  A mean is kept as its sum and its window length.
NaN == [nan |-> TRUE, num |-> 0, den |-> 1]
Num(num, den) == [nan |-> FALSE, num |-> num, den |-> den]
Gt(x, y) == ~x.nan /\ ~y.nan /\ x.num * y.den > y.num * x.den
Lt(x, y) == ~x.nan /\ ~y.nan /\ x.num * y.den < y.num * x.den

\* df.iloc[-a:-b] as positions of the frame (b = 0: to the end).
TailSlice(df, a, b) ==
    {i \in 1..Len(df) : i > Len(df) - a /\ i <= Len(df) - b}

RECURSIVE SumClose(_, _)
SumClose(df, idx) ==
    IF idx = {} THEN 0
    ELSE LET i == CHOOSE j \in idx : TRUE
         IN  df[i].close + SumClose(df, idx \ {i})

\* df['close'].rolling(w).mean().iloc[-1]
RollingMeanLast(df, w) ==
    IF Len(df) < w THEN NaN ELSE Num(SumClose(df, TailSlice(df, w, 0)), w)

\* df['high'].iloc[-a:-b].max() and df['low'].iloc[-a:-b].min()
SliceMaxHigh(df, a, b) ==
    LET idx == TailSlice(df, a, b)
    IN  IF idx = {} THEN NaN
        ELSE Num(CHOOSE h \in {df[i].high : i \in idx} : \A i \in idx : df[i].high <= h, 1)
SliceMinLow(df, a, b) ==
    LET idx == TailSlice(df, a, b)
    IN  IF idx = {} THEN NaN
        ELSE Num(CHOOSE l \in {df[i].low : i \in idx} : \A i \in idx : df[i].low >= l, 1)

\* The two scores of _determine_bias on a frame of at least 20 bars.
bias_scores(df) ==
    LET current_price == Num(df[Len(df)].close, 1)
        sma_20 == RollingMeanLast(df, 20)
        sma_50 == RollingMeanLast(df, 50)
        recent_high == SliceMaxHigh(df, 20, 0)
        recent_low == SliceMinLow(df, 20, 0)
        prev_high == SliceMaxHigh(df, 40, 20)
        prev_low == SliceMinLow(df, 40, 20)
        \* price_change = (current_price - close[-10]) / close[-10], against
        \* 0.02 = 2/100
        base == df[Len(df) - 9].close
        price_change == Num(df[Len(df)].close - base, base)
        ma == IF Gt(current_price, sma_20) /\ Gt(sma_20, sma_50) THEN "bullish"
              ELSE IF Lt(current_price, sma_20) /\ Lt(sma_20, sma_50) THEN "bearish"
              ELSE "none"
        swing == IF Gt(recent_high, prev_high) /\ Gt(recent_low, prev_low) THEN "bullish"
                 ELSE IF Lt(recent_high, prev_high) /\ Lt(recent_low, prev_low) THEN "bearish"
                 ELSE "none"
        momentum == IF Gt(price_change, Num(2, 100)) THEN "bullish"
                    ELSE IF Lt(price_change, Num(-2, 100)) THEN "bearish"
                    ELSE "none"
    IN  [bullish_score |-> (IF ma = "bullish" THEN 2 ELSE 0)
                         + (IF swing = "bullish" THEN 2 ELSE 0)
                         + (IF momentum = "bullish" THEN 1 ELSE 0),
         bearish_score |-> (IF ma = "bearish" THEN 2 ELSE 0)
                         + (IF swing = "bearish" THEN 2 ELSE 0)
                         + (IF momentum = "bearish" THEN 1 ELSE 0)]

\* "Determine bias" on a margin of 1.
bias_of_scores_margin_one(bullish_score, bearish_score) ==
    IF bullish_score >= bearish_score + 1 THEN "bullish"
    ELSE IF bearish_score >= bullish_score + 1 THEN "bearish"
    ELSE "neutral"

\* "Determine bias".
bias_of_scores(bullish_score, bearish_score) ==
    IF bullish_score >= bearish_score + 2 THEN "bullish"
    ELSE IF bearish_score >= bullish_score + 2 THEN "bearish"
    ELSE "neutral"

\* ICTAnalyzer._determine_bias
determine_bias(df) ==
    IF Len(df) < 20
    THEN [bias |-> "neutral", bullish_score |-> 0, bearish_score |-> 0]
    ELSE LET sc == bias_scores(df)
         IN  [bias |-> bias_of_scores(sc.bullish_score, sc.bearish_score),
              bullish_score |-> sc.bullish_score,
              bearish_score |-> sc.bearish_score]

(***************************************************************************)
(* Inputs of one run of _determine_bias                                    *)
(***************************************************************************)

\* Longest frame.
MaxBars == 51

\* Frame lengths around the 20-, 40- and 50-bar windows.
FrameLengths == {0, 19, 20, 21, 39, 40, 49, 50, MaxBars}

\* Close levels (2 % and more apart) and half-widths of the bars.
CloseLevels == {90, 98, 100, 103}
HalfWidths == {1, 5}

\* A frame of n bars that holds one level on each of: the last bar, the 9
\* bars before it, the 10 before those, the 20 before those, the rest; the
\* bars of the last 20 share one half-width, the earlier ones another.
BiasFrame(n, c0, la, lb, lc, ld, wr, wp) ==
    [i \in 1..n |->
        LET k == n - i
            level == IF k = 0 THEN c0
                     ELSE IF k < 10 THEN la
                     ELSE IF k < 20 THEN lb
                     ELSE IF k < 40 THEN lc
                     ELSE ld
            w == IF k < 20 THEN wr ELSE wp
        IN  [high |-> level + w, low |-> level - w, close |-> level]]

BiasFrames ==
    {BiasFrame(n, c0, la, lb, lc, ld, wr, wp) :
        n \in FrameLengths, c0 \in CloseLevels, la \in CloseLevels, lb \in CloseLevels,
        lc \in CloseLevels, ld \in CloseLevels, wr \in HalfWidths, wp \in HalfWidths}

NoBias == [bias |-> "none", bullish_score |-> 0, bearish_score |-> 0]

BiasIdle ==
    /\ a_df = <<>>
    /\ a_pc = "idle"
    /\ a_out = NoBias

BiasInit ==
    /\ a_df \in BiasFrames
    /\ a_pc = "ready"
    /\ a_out = NoBias

DetermineBias ==
    /\ a_pc = "ready"
    /\ a_out' = determine_bias(a_df)
    /\ a_pc' = "done"
    /\ UNCHANGED a_df

(***************************************************************************)
(*                             FVG DETECTOR                                *)
(***************************************************************************)

\* Prices of this component are in tenths of 1.0.

\* df.tail(lookback)
Tail_(df, lookback) ==
    IF Len(df) <= lookback THEN df ELSE SubSeq(df, Len(df) - lookback + 1, Len(df))

\* subsequent_candles = df.iloc[i+1:], as positions of df.
Subsequent(df, i) == (i + 1)..Len(df)

\* Status of a gap read from the latest candle only.
fvg_status_last_candle(df, i, direction, gap_high, gap_low) ==
    IF direction = "bullish"
    THEN [mitigated |-> i < Len(df) /\ df[Len(df)].low <= gap_high,
          invalidated |-> i < Len(df) /\ df[Len(df)].close < gap_low]
    ELSE [mitigated |-> i < Len(df) /\ df[Len(df)].high >= gap_low,
          invalidated |-> i < Len(df) /\ df[Len(df)].close > gap_high]

\* Status of a gap that counts as touched only by a wick ending inside it.
fvg_status_touch_inside(df, i, direction, gap_high, gap_low) ==
    IF direction = "bullish"
    THEN [mitigated |-> \E j \in Subsequent(df, i) :
                            df[j].low <= gap_high /\ df[j].low >= gap_low,
          invalidated |-> \E j \in Subsequent(df, i) : df[j].close < gap_low]
    ELSE [mitigated |-> \E j \in Subsequent(df, i) :
                            df[j].high >= gap_low /\ df[j].high <= gap_high,
          invalidated |-> \E j \in Subsequent(df, i) : df[j].close > gap_high]

\* "Check status based on subsequent price action": mitigated once a later
\* candle touched the zone, invalidated once a later candle closed beyond it.
fvg_status(df, i, direction, gap_high, gap_low) ==
    IF direction = "bullish"
    THEN [mitigated |-> \E j \in Subsequent(df, i) : df[j].low <= gap_high,
          invalidated |-> \E j \in Subsequent(df, i) : df[j].close < gap_low]
    ELSE [mitigated |-> \E j \in Subsequent(df, i) : df[j].high >= gap_low,
          invalidated |-> \E j \in Subsequent(df, i) : df[j].close > gap_high]

\* FVG(...) as detect_fvgs fills it in; filled is mapped to invalidated.
Fvg(df, i, direction, gap_high, gap_low) ==
    LET st == fvg_status(df, i, direction, gap_high, gap_low)
    IN  [high |-> gap_high, low |-> gap_low, timestamp |-> df[i].timestamp,
         gap_size |-> gap_high - gap_low, direction |-> direction,
         filled |-> st.invalidated, mitigated |-> st.mitigated,
         invalidated |-> st.invalidated]

\* The body of the loop for candle_3 = df.iloc[i] (i counted from 1).
FvgsAt(df, i) ==
    LET candle_1 == df[i - 2]
        candle_3 == df[i]
    IN  IF candle_1.high < candle_3.low
        THEN <<Fvg(df, i, "bullish", candle_3.low, candle_1.high)>>
        ELSE IF candle_1.low > candle_3.high
        THEN <<Fvg(df, i, "bearish", candle_1.low, candle_3.high)>>
        ELSE <<>>

\* for i in range(2, len(df)), from position i on.
RECURSIVE FvgLoop(_, _)
FvgLoop(df, i) ==
    IF i > Len(df) THEN <<>> ELSE FvgsAt(df, i) \o FvgLoop(df, i + 1)

\* The frame below which detect_fvgs returns nothing.
MinFvgFrame == 10

\* detect_fvgs(df, lookback)
detect_fvgs(df, lookback) ==
    IF Len(df) < MinFvgFrame THEN <<>>
    ELSE FvgLoop(Tail_(df, lookback), 3)

(***************************************************************************)
(* Inputs of the FVG Detector                                              *)
(***************************************************************************)

\* Most bars appended to the starting series, and the shortest lookback the
\* detector is called with.
MaxAppends == 6
SmallLookback == 5
\* lookback: int = 100
DefaultLookback == 100

\* Candles <<low, high, close>>: a low one, a middle one whose low is 10.5
\* above the low one's high of 10, and a high one clear of both.
CandleKinds == {<<90, 100, 95>>, <<105, 120, 110>>, <<130, 140, 135>>}
Candle(k, timestamp) ==
    [timestamp |-> timestamp, low |-> k[1], high |-> k[2], close |-> k[3]]

\* Series the detector starts on: an empty one, and 7 equal middle candles.
WarmupFrame == [i \in 1..7 |-> Candle(<<105, 120, 110>>, i)]
StartFrames == {<<>>, WarmupFrame}

FvgIdle ==
    /\ f_df = <<>>
    /\ f_lookback = DefaultLookback
    /\ f_pc = "idle"
    /\ f_fvgs = <<>>

FvgInit ==
    /\ f_df \in StartFrames
    /\ f_lookback \in {SmallLookback, DefaultLookback}
    /\ f_pc = (IF f_df = <<>> THEN "cold" ELSE "warm")
    /\ f_fvgs = detect_fvgs(f_df, f_lookback)

\* A bar closes and the detector is re-run on the longer series.
AppendBar(k) ==
    /\ f_pc \in {"cold", "warm"}
    /\ Len(f_df) < (IF f_pc = "warm" THEN Len(WarmupFrame) ELSE 0) + MaxAppends
    /\ f_df' = Append(f_df, Candle(k, Len(f_df) + 1))
    /\ f_fvgs' = detect_fvgs(f_df', f_lookback)
    /\ UNCHANGED <<f_lookback, f_pc>>

FvgNext == \E k \in CandleKinds : AppendBar(k)

(***************************************************************************)
(*                         ORDER-BLOCK DETECTOR                            *)
(***************************************************************************)

\* _obs_overlap counting blocks that only touch as apart.
obs_overlap_open(ob1, ob2) == ~(ob1.high <= ob2.low \/ ob1.low >= ob2.high)

\* _obs_overlap
obs_overlap(ob1, ob2) == ~(ob1.high < ob2.low \/ ob1.low > ob2.high)

\* The candidates left in the order they were detected.
sorted_by_strength_unsorted(order_blocks) == order_blocks

\* sorted(order_blocks, key=lambda x: x.strength, reverse=True): stable,
\* equal strengths keep their order.
RECURSIVE InsertByStrength(_, _)
InsertByStrength(x, s) ==
    IF s = <<>> THEN <<x>>
    ELSE IF x.strength > Head(s).strength THEN <<x>> \o s
    ELSE <<Head(s)>> \o InsertByStrength(x, Tail(s))

RECURSIVE sorted_by_strength(_)
sorted_by_strength(order_blocks) ==
    IF order_blocks = <<>> THEN <<>>
    ELSE InsertByStrength(order_blocks[Len(order_blocks)],
                          sorted_by_strength(SubSeq(order_blocks, 1, Len(order_blocks) - 1)))

\* The loop over sorted_obs: a block is appended to filtered unless it
\* overlaps one already there.
RECURSIVE FilterObs(_, _)
FilterObs(sorted_obs, filtered) ==
    IF sorted_obs = <<>> THEN filtered
    ELSE LET ob == Head(sorted_obs)
             overlaps == \E k \in 1..Len(filtered) : obs_overlap(ob, filtered[k])
         IN  FilterObs(Tail(sorted_obs), IF overlaps THEN filtered ELSE Append(filtered, ob))

\* _remove_overlapping_obs
remove_overlapping_obs(order_blocks) ==
    IF order_blocks = <<>> THEN <<>>
    ELSE FilterObs(sorted_by_strength(order_blocks), <<>>)

(***************************************************************************)
(* Inputs of _remove_overlapping_obs                                       *)
(***************************************************************************)

\* Most candidates of one detection.
MaxCandidates == 3

\* Candle ranges <<low, high>> of candidates: three that touch end to end,
\* and one inside the middle one.
BlockRanges == {<<10, 20>>, <<20, 30>>, <<30, 40>>, <<22, 28>>}
\* Strengths in hundredths; a candidate's strength exceeds 0.63.
BlockStrengths == {70, 85, 100}

\* Candidates in detection order; the timestamp is the candle's position.
Candidates ==
    UNION {[1..n -> [range : BlockRanges, strength : BlockStrengths,
                     direction : {"bullish", "bearish"}]] : n \in 0..MaxCandidates}
OrderBlocks(cs) ==
    [i \in 1..Len(cs) |->
        [high |-> cs[i].range[2], low |-> cs[i].range[1], timestamp |-> i,
         direction |-> cs[i].direction, strength |-> cs[i].strength]]

OrderBlocksIdle ==
    /\ o_in = <<>>
    /\ o_pc = "idle"
    /\ o_out = <<>>

OrderBlocksInit ==
    /\ \E cs \in Candidates : o_in = OrderBlocks(cs)
    /\ o_pc = "ready"
    /\ o_out = <<>>

\* order_blocks = _remove_overlapping_obs(order_blocks)
RemoveOverlappingObs ==
    /\ o_pc = "ready"
    /\ o_out' = remove_overlapping_obs(o_in)
    /\ o_pc' = "done"
    /\ UNCHANGED o_in

(***************************************************************************)
(*                          LIQUIDITY DETECTOR                             *)
(***************************************************************************)

\* Prices of this component are in cents.

\* sorted(zones, key=lambda x: x.price): stable.
RECURSIVE InsertByPrice(_, _)
InsertByPrice(x, s) ==
    IF s = <<>> THEN <<x>>
    ELSE IF x.price < Head(s).price THEN <<x>> \o s
    ELSE <<Head(s)>> \o InsertByPrice(x, Tail(s))

RECURSIVE sorted_by_price(_)
sorted_by_price(zones) ==
    IF zones = <<>> THEN <<>>
    ELSE InsertByPrice(zones[Len(zones)], sorted_by_price(SubSeq(zones, 1, Len(zones) - 1)))

\* abs(zone.price - last_merged.price) / last_merged.price <= tolerance,
\* tolerance = 0.002 = 2/1000.
WithinTolerance(price, last_price) ==
    LET diff == IF price >= last_price THEN price - last_price ELSE last_price - price
    IN  1000 * diff <= 2 * last_price

\* The loop of _merge_nearby_zones: each zone is compared with the last
\* merged zone only.
RECURSIVE MergeLoop(_, _)
MergeLoop(sorted_zones, merged) ==
    IF sorted_zones = <<>> THEN merged
    ELSE LET zone == Head(sorted_zones)
             last_merged == merged[Len(merged)]
         IN  IF WithinTolerance(zone.price, last_merged.price)
                /\ zone.zone_type = last_merged.zone_type
             THEN MergeLoop(Tail(sorted_zones),
                            IF zone.strength > last_merged.strength
                            THEN [merged EXCEPT ![Len(merged)] = zone]
                            ELSE merged)
             ELSE MergeLoop(Tail(sorted_zones), Append(merged, zone))

\* _merge_nearby_zones
merge_nearby_zones(zones) ==
    IF zones = <<>> THEN <<>>
    ELSE LET sorted_zones == sorted_by_price(zones)
         IN  MergeLoop(Tail(sorted_zones), <<Head(sorted_zones)>>)

\* liquidity_zones.sort(key=lambda x: x.strength, reverse=True)
sort_zones_by_strength(zones) == sorted_by_strength(zones)

(***************************************************************************)
(* Inputs of _merge_nearby_zones                                           *)
(***************************************************************************)

\* Most zones collected by one detection.
MaxZones == 3

\* Zone prices in cents: 100.00, 100.10 and 100.15 lie within 0.2 % of one
\* another, 100.50 lies clear of them.
ZonePrices == {10000, 10010, 10015, 10050}
ZoneStrengths == {30, 60}
LiquidityZones ==
    [price : ZonePrices, zone_type : {"buy_side", "sell_side"}, strength : ZoneStrengths]

LiquidityIdle ==
    /\ l_in = <<>>
    /\ l_pc = "idle"
    /\ l_out = <<>>

LiquidityInit ==
    /\ l_in \in UNION {[1..n -> LiquidityZones] : n \in 0..MaxZones}
    /\ l_pc = "ready"
    /\ l_out = <<>>

\* liquidity_zones = _merge_nearby_zones(liquidity_zones), then the sort.
MergeNearbyZones ==
    /\ l_pc = "ready"
    /\ l_out' = sort_zones_by_strength(merge_nearby_zones(l_in))
    /\ l_pc' = "done"
    /\ UNCHANGED l_in

(***************************************************************************)
(*                       MARKET-STRUCTURE SCANNER                          *)
(***************************************************************************)

\* _identify_swings(data, mode, window = 5): data is df['high'] or df['low']
\* as a sequence; position p is Python's index p - 1.
SwingWindow == 5
IsSwing(data, p, mode) ==
    /\ \A q \in (p - SwingWindow)..(p - 1) :
          IF mode = "high" THEN data[p] >= data[q] ELSE data[p] <= data[q]
    /\ \A q \in (p + 1)..(p + SwingWindow) :
          IF mode = "high" THEN data[p] >= data[q] ELSE data[p] <= data[q]

RECURSIVE SwingsFrom(_, _, _)
SwingsFrom(data, p, mode) ==
    IF p > Len(data) - SwingWindow THEN <<>>
    ELSE (IF IsSwing(data, p, mode) THEN <<data[p]>> ELSE <<>>)
         \o SwingsFrom(data, p + 1, mode)

identify_swings(data, mode) == SwingsFrom(data, SwingWindow + 1, mode)

\* swings[-5:] if len(swings) >= 5 else swings
LastFive(swings) ==
    IF Len(swings) >= 5 THEN SubSeq(swings, Len(swings) - 4, Len(swings)) ELSE swings

Rising(xs) == \A i \in 1..(Len(xs) - 1) : xs[i] < xs[i + 1]
Falling(xs) == \A i \in 1..(Len(xs) - 1) : xs[i] > xs[i + 1]

\* _is_ranging(df, threshold = 0.03) on df.tail(30)
is_ranging(df) ==
    LET first == IF Len(df) > 30 THEN Len(df) - 29 ELSE 1
        idx == first..Len(df)
        range_high == CHOOSE h \in {df[i].high : i \in idx} : \A i \in idx : df[i].high <= h
        range_low == CHOOSE l \in {df[i].low : i \in idx} : \A i \in idx : df[i].low >= l
    IN  100 * (range_high - range_low) <= 3 * range_low

\* The frame below which analyze_market_structure gives up.
MinStructureFrame == 30

\* analyze_market_structure
analyze_market_structure(df) ==
    IF Len(df) < MinStructureFrame THEN "insufficient_data"
    ELSE LET swing_highs == identify_swings([i \in 1..Len(df) |-> df[i].high], "high")
             swing_lows == identify_swings([i \in 1..Len(df) |-> df[i].low], "low")
             recent_highs == LastFive(swing_highs)
             recent_lows == LastFive(swing_lows)
             enough == Len(recent_highs) >= 2 /\ Len(recent_lows) >= 2
         IN  IF enough /\ Rising(recent_highs) /\ Rising(recent_lows)
             THEN "higher_highs_higher_lows"
             ELSE IF enough /\ Rising(recent_highs) THEN "higher_highs"
             ELSE IF enough /\ Falling(recent_highs) /\ Falling(recent_lows)
             THEN "lower_highs_lower_lows"
             ELSE IF enough /\ Falling(recent_lows) THEN "lower_lows"
             ELSE IF is_ranging(df) THEN "ranging"
             ELSE "choppy"

(***************************************************************************)
(* Inputs of analyze_market_structure                                      *)
(***************************************************************************)

\* Longest frame handed to the scanner.
MaxStructureBars == 31

\* A frame of n flat bars around a base price, with a spike up on every
\* sixth bar and a spike down three bars later; the spikes grow (1), stay
\* (0) or shrink (-1) by 10 per bar along the frame.
StructureFrame(n, base, up, down) ==
    [i \in 1..n |->
        [high |-> base + 5 + (IF i % 6 = 0 THEN 400 + up * 10 * i ELSE 0),
         low |-> base - 5 - (IF i % 6 = 3 THEN 400 - down * 10 * i ELSE 0)]]

StructureFrames ==
    {StructureFrame(n, base, up, down) :
        n \in 0..MaxStructureBars, base \in {10000, 100000},
        up \in {-1, 0, 1}, down \in {-1, 0, 1}}

StructureIdle ==
    /\ s_df = <<>>
    /\ s_pc = "idle"
    /\ s_out = "none"

StructureInit ==
    /\ s_df \in StructureFrames
    /\ s_pc = "ready"
    /\ s_out = "none"

AnalyzeMarketStructure ==
    /\ s_pc = "ready"
    /\ s_out' = analyze_market_structure(s_df)
    /\ s_pc' = "done"
    /\ UNCHANGED s_df

(***************************************************************************)
(*                          ANALYSIS PIPELINE                              *)
(***************************************************************************)

\* A bar table: the rows (bars) and the names of its columns.
OhlcvColumns == {"timestamp", "open", "high", "low", "close", "volume"}
Table(rows, columns) == [rows |-> rows, columns |-> columns]

\* df.tail(lookback).copy(): a new table, the caller's is not touched.
TailCopy(table, lookback) == Table(Tail_(table.rows, lookback), table.columns)
\* df[name] = ... for each of the names, on the table df refers to.
AssignColumns(table, names) == Table(table.rows, table.columns \cup names)

\* What a component leaves behind: the caller's table after the call, and
\* the table the component worked on.
Frames(caller, work) == [caller |-> caller, work |-> work]

\* _determine_bias: df['sma_20'] and df['sma_50'] are assigned on the df it
\* was passed.
determine_bias_frames(table) ==
    IF Len(table.rows) < 20 THEN Frames(table, table)
    ELSE LET df == AssignColumns(table, {"sma_20", "sma_50"})
         IN  Frames(df, df)

\* detect_order_blocks: df = df.tail(lookback).copy() before the metrics.
detect_order_blocks_frames(table) ==
    IF Len(table.rows) < 20 THEN Frames(table, table)
    ELSE Frames(table, AssignColumns(TailCopy(table, DefaultLookback),
                                     {"body_size", "candle_range", "body_ratio"}))

\* detect_fvgs, detect_liquidity_zones: a tail copy, no column assigned.
detect_fvgs_frames(table) ==
    IF Len(table.rows) < MinFvgFrame THEN Frames(table, table)
    ELSE Frames(table, TailCopy(table, DefaultLookback))
detect_liquidity_zones_frames(table) ==
    IF Len(table.rows) < 20 THEN Frames(table, table)
    ELSE Frames(table, TailCopy(table, DefaultLookback))

\* analyze_market_structure reads df['high'].values and df['low'].values.
analyze_market_structure_frames(table) == Frames(table, table)

\* The analysis components by name.
Components == {"bias", "order_blocks", "fvgs", "liquidity", "structure"}
ComponentFrames(c, table) ==
    IF c = "bias" THEN determine_bias_frames(table)
    ELSE IF c = "order_blocks" THEN detect_order_blocks_frames(table)
    ELSE IF c = "fvgs" THEN detect_fvgs_frames(table)
    ELSE IF c = "liquidity" THEN detect_liquidity_zones_frames(table)
    ELSE analyze_market_structure_frames(table)

(***************************************************************************)
(* Inputs of the analysis pipeline                                         *)
(***************************************************************************)

\* Tables of 5, 19, 20 and 21 bars on a few close levels.
PipelineTables ==
    {Table(BiasFrame(n, c0, la, 100, 100, 100, 1, 1), OhlcvColumns) :
        n \in {5, 19, 20, 21}, c0 \in CloseLevels, la \in CloseLevels}

NoTable == Table(<<>>, {})

PipelineIdle ==
    /\ p_table = NoTable
    /\ p_given = NoTable
    /\ p_pc = "idle"
    /\ p_ran = {}

PipelineInit ==
    /\ p_table \in PipelineTables
    /\ p_given = p_table
    /\ p_pc = "analyzing"
    /\ p_ran = {}

\* One component is called on the caller's table.
RunComponent(c) ==
    /\ p_pc = "analyzing"
    /\ c \notin p_ran
    /\ p_table' = ComponentFrames(c, p_table).caller
    /\ p_ran' = p_ran \cup {c}
    /\ UNCHANGED <<p_given, p_pc>>

PipelineNext == \E c \in Components : RunComponent(c)

(***************************************************************************)
(*                       CONTEXT CACHE OF THE COACH                        *)
(***************************************************************************)

CONTEXT_CACHE_TTL_SECONDS == 60

\* ContextSection: what built it and when (generated_at defaults to
\* datetime.utcnow() at construction).
ContextSection(session_id, identifier, generated_at) ==
    [session_id |-> session_id, identifier |-> identifier,
     generated_at |-> generated_at]

\* f"{session_id}:{identifier}", strings as sequences of tokens.
cache_key(session_id, identifier) == session_id \o <<":">> \o identifier

\* self.context_cache.pop(key, None)
CachePop(cache, key) == [k \in DOMAIN cache \ {key} |-> cache[k]]

\* _get_cached_section serving whatever entry it finds.
get_cached_section_no_expiry(cache, session_id, identifier, now) ==
    LET key == cache_key(session_id, identifier)
    IN  IF key \notin DOMAIN cache
        THEN [entry |-> None, cache |-> cache]
        ELSE [entry |-> Some(cache[key]), cache |-> cache]

\* _get_cached_section: the entry it returns and the cache it leaves.
get_cached_section(cache, session_id, identifier, now) ==
    LET key == cache_key(session_id, identifier)
    IN  IF key \notin DOMAIN cache
        THEN [entry |-> None, cache |-> cache]
        ELSE IF now - cache[key].generated_at > CONTEXT_CACHE_TTL_SECONDS
        THEN [entry |-> None, cache |-> CachePop(cache, key)]
        ELSE [entry |-> Some(cache[key]), cache |-> cache]

\* _store_section: self.context_cache[key] = section
store_section(cache, session_id, identifier, section) ==
    LET key == cache_key(session_id, identifier)
    IN  [k \in DOMAIN cache \cup {key} |->
            IF k = key THEN section ELSE cache[k]]

(***************************************************************************)
(* Inputs of the context cache                                             *)
(***************************************************************************)

\* Session ids are client strings; identifiers are "intraday:{symbol}" and
\* "trade:{related_trade_id}".
SessionIds == {<<"s1">>, <<"s1", ":", "intraday">>}
Identifiers == {<<"intraday", ":", "trade", ":", "7">>, <<"trade", ":", "7">>}

CacheKeys == {cache_key(s, i) : s \in SessionIds, i \in Identifiers}

\* The clock advances in steps of ClockStep seconds, MaxTicks times.
ClockStep == 30
MaxTicks == 3
MaxPending == 2

EmptyCache == [k \in {} |-> None]
NoCacheCall == [kind |-> "none", session_id |-> <<>>, identifier |-> <<>>,
           expired |-> FALSE, age |-> 0]

CacheIdle ==
    /\ c_cache = EmptyCache
    /\ c_now = 0
    /\ c_pending = {}
    /\ c_last = NoCacheCall
    /\ c_pc = "idle"

CacheInit ==
    /\ c_cache = EmptyCache
    /\ c_now = 0
    /\ c_pending = {}
    /\ c_last = NoCacheCall
    /\ c_pc = "serving"

\* The wall clock moves on.
ClockAdvance ==
    /\ c_pc = "serving"
    /\ c_now < MaxTicks * ClockStep
    /\ c_now' = c_now + ClockStep
    /\ UNCHANGED <<c_cache, c_pending, c_last, c_pc>>

\* _get_or_build_section up to the await: the lookup either serves the
\* cached section or leaves the call waiting for its builder.
Lookup(session_id, identifier) ==
    /\ c_pc = "serving"
    /\ LET key == cache_key(session_id, identifier)
           got == get_cached_section(c_cache, session_id, identifier, c_now)
           expired == key \in DOMAIN c_cache /\ ~got.entry.some
           call == [session_id |-> session_id, identifier |-> identifier,
                    expired |-> expired]
       IN  /\ c_cache' = got.cache
           /\ IF got.entry.some
              THEN /\ c_last' = [kind |-> "hit", session_id |-> session_id,
                                 identifier |-> identifier, expired |-> FALSE,
                                 age |-> c_now - got.entry.v.generated_at]
                   /\ UNCHANGED c_pending
              ELSE /\ Cardinality(c_pending) < MaxPending
                   /\ \A p \in c_pending :
                         p.session_id # session_id \/ p.identifier # identifier
                   /\ c_pending' = c_pending \cup {call}
                   /\ UNCHANGED c_last
    /\ UNCHANGED <<c_now, c_pc>>

\* The builder of a waiting call returns: a section (stored) or None.
BuilderReturns(call, built) ==
    /\ c_pc = "serving"
    /\ call \in c_pending
    /\ c_pending' = c_pending \ {call}
    /\ IF built
       THEN c_cache' = store_section(c_cache, call.session_id, call.identifier,
                          ContextSection(call.session_id, call.identifier, c_now))
       ELSE UNCHANGED c_cache
    /\ c_last' = [kind |-> IF built THEN "built" ELSE "unbuilt",
                  session_id |-> call.session_id,
                  identifier |-> call.identifier,
                  expired |-> call.expired, age |-> 0]
    /\ UNCHANGED <<c_now, c_pc>>

CacheNext ==
    \/ ClockAdvance
    \/ \E s \in SessionIds, i \in Identifiers : Lookup(s, i)
    \/ \E call \in c_pending, built \in BOOLEAN : BuilderReturns(call, built)

(***************************************************************************)
(*                              DATA FETCHER                               *)
(***************************************************************************)

max_retries == 3

\* What one HTTP attempt ends with: a 2xx response, an HTTPStatusError with
\* a status code, or another exception.
RetryableStatus == {500, 502, 503, 504}
OtherStatus == {404, 429}
RetryableErrors == {"ReadTimeout", "ConnectTimeout", "RemoteProtocolError"}
OtherErrors == {"ConnectError", "JSONDecodeError"}
Ok == [kind |-> "ok", code |-> 200, error |-> "none"]
StatusError(code) == [kind |-> "status", code |-> code, error |-> "HTTPStatusError"]
Failure(name) == [kind |-> "exception", code |-> 0, error |-> name]
AttemptResults ==
    {Ok} \cup {StatusError(c) : c \in RetryableStatus \cup OtherStatus}
         \cup {Failure(e) : e \in RetryableErrors \cup OtherErrors}

Retryable(r) ==
    \/ r.kind = "status" /\ r.code \in RetryableStatus
    \/ r.kind = "exception" /\ r.error \in RetryableErrors

\* 2 ** attempt
RECURSIVE Pow2(_)
Pow2(n) == IF n = 0 THEN 1 ELSE 2 * Pow2(n - 1)

\* What the body of the loop does with the result of attempt number
\* `attempt`: break, sleep and continue, or raise.
attempt_step(attempt, r) ==
    IF r.kind = "ok" THEN "break"
    ELSE IF Retryable(r) /\ attempt < max_retries - 1 THEN "continue"
    ELSE "raise"

\* The payloads a 2xx response carries.
Payloads == {"time_series", "Error Message", "Note", "unexpected"}

FetchIdle ==
    /\ h_attempt = 0
    /\ h_pc = "idle"
    /\ h_history = <<>>
    /\ h_waits = <<>>
    /\ h_outcome = "none"

FetchInit ==
    /\ h_attempt = 0
    /\ h_pc = "requesting"
    /\ h_history = <<>>
    /\ h_waits = <<>>
    /\ h_outcome = "none"

\* One iteration of `for attempt in range(max_retries)` up to its break,
\* its sleep or its raise.
Attempt(r) ==
    /\ h_pc = "requesting"
    /\ h_attempt < max_retries
    /\ h_history' = Append(h_history, r)
    /\ LET step == attempt_step(h_attempt, r)
       IN  \/ /\ step = "break"
              /\ h_pc' = "parsing"
              /\ UNCHANGED <<h_attempt, h_waits, h_outcome>>
           \/ /\ step = "continue"
              /\ h_pc' = "sleeping"
              /\ h_waits' = Append(h_waits, Pow2(h_attempt))
              /\ UNCHANGED <<h_attempt, h_outcome>>
           \/ /\ step = "raise"
              /\ h_pc' = "done"
              /\ h_outcome' = "AlphaVantageError"
              /\ UNCHANGED <<h_attempt, h_waits>>

\* asyncio.sleep returns and `continue` goes back to the head of the loop:
\* the next attempt, or, with range(max_retries) exhausted, the else clause
\* of the loop, which switches to mock data.
Resume ==
    /\ h_pc = "sleeping"
    /\ h_attempt' = h_attempt + 1
    /\ IF h_attempt + 1 < max_retries
       THEN /\ h_pc' = "requesting"
            /\ UNCHANGED h_outcome
       ELSE /\ h_pc' = "done"
            /\ h_outcome' = "mock"
    /\ UNCHANGED <<h_history, h_waits>>

\* After the break: the API error checks and the parse.
ParseResponse(payload) ==
    /\ h_pc = "parsing"
    /\ h_pc' = "done"
    /\ h_outcome' = (IF payload = "time_series" THEN "data" ELSE "AlphaVantageError")
    /\ UNCHANGED <<h_attempt, h_history, h_waits>>

FetchNext ==
    \/ \E r \in AttemptResults : Attempt(r)
    \/ Resume
    \/ \E payload \in Payloads : ParseResponse(payload)

(***************************************************************************)
(* Specifications                                                          *)
(***************************************************************************)

\* The Plan Validator called repeatedly on one stored scenario.
SpecValidatorInit ==
    /\ ValidatorInit
    /\ BuilderIdle /\ DealingRangeIdle /\ DayTypeIdle
    /\ BiasIdle /\ FvgIdle /\ OrderBlocksIdle
    /\ LiquidityIdle /\ StructureIdle /\ PipelineIdle
    /\ CacheIdle /\ FetchIdle
SpecValidatorNext ==
    /\ ValidatorNext
    /\ UNCHANGED <<b_vars, d_vars, t_vars, a_vars, f_vars, o_vars,
                   l_vars, s_vars, p_vars, c_vars, h_vars>>
SpecValidator == SpecValidatorInit /\ [][SpecValidatorNext]_vars

\* One run of the Scenario Builder on bounded inputs.
SpecBuilderInit ==
    /\ BuilderInit
    /\ ValidatorIdle /\ DealingRangeIdle /\ DayTypeIdle
    /\ BiasIdle /\ FvgIdle /\ OrderBlocksIdle
    /\ LiquidityIdle /\ StructureIdle /\ PipelineIdle
    /\ CacheIdle /\ FetchIdle
SpecBuilderNext ==
    /\ Step6TradePlan
    /\ UNCHANGED <<v_vars, d_vars, t_vars, a_vars, f_vars, o_vars,
                   l_vars, s_vars, p_vars, c_vars, h_vars>>
SpecBuilder == SpecBuilderInit /\ [][SpecBuilderNext]_vars

\* One run of the Dealing-Range Builder on bounded inputs.
SpecDealingRangeInit ==
    /\ DealingRangeInit
    /\ ValidatorIdle /\ BuilderIdle /\ DayTypeIdle
    /\ BiasIdle /\ FvgIdle /\ OrderBlocksIdle
    /\ LiquidityIdle /\ StructureIdle /\ PipelineIdle
    /\ CacheIdle /\ FetchIdle
SpecDealingRangeNext ==
    /\ Step3DealingRange
    /\ UNCHANGED <<v_vars, b_vars, t_vars, a_vars, f_vars, o_vars,
                   l_vars, s_vars, p_vars, c_vars, h_vars>>
SpecDealingRange == SpecDealingRangeInit /\ [][SpecDealingRangeNext]_vars

\* One run of the Day-Type Classifier on bounded inputs.
SpecDayTypeInit ==
    /\ DayTypeInit
    /\ ValidatorIdle /\ BuilderIdle /\ DealingRangeIdle
    /\ BiasIdle /\ FvgIdle /\ OrderBlocksIdle
    /\ LiquidityIdle /\ StructureIdle /\ PipelineIdle
    /\ CacheIdle /\ FetchIdle
SpecDayTypeNext ==
    /\ Step5DayType
    /\ UNCHANGED <<v_vars, b_vars, d_vars, a_vars, f_vars, o_vars,
                   l_vars, s_vars, p_vars, c_vars, h_vars>>
SpecDayType == SpecDayTypeInit /\ [][SpecDayTypeNext]_vars

\* One run of the Bias Classifier on bounded frames.
SpecBiasInit ==
    /\ BiasInit
    /\ ValidatorIdle /\ BuilderIdle /\ DealingRangeIdle
    /\ DayTypeIdle /\ FvgIdle /\ OrderBlocksIdle
    /\ LiquidityIdle /\ StructureIdle /\ PipelineIdle
    /\ CacheIdle /\ FetchIdle
SpecBiasNext ==
    /\ DetermineBias
    /\ UNCHANGED <<v_vars, b_vars, d_vars, t_vars, f_vars, o_vars,
                   l_vars, s_vars, p_vars, c_vars, h_vars>>
SpecBias == SpecBiasInit /\ [][SpecBiasNext]_vars

\* The FVG Detector re-run on a series that grows bar by bar.
SpecFvgInit ==
    /\ FvgInit
    /\ ValidatorIdle /\ BuilderIdle /\ DealingRangeIdle
    /\ DayTypeIdle /\ BiasIdle /\ OrderBlocksIdle
    /\ LiquidityIdle /\ StructureIdle /\ PipelineIdle
    /\ CacheIdle /\ FetchIdle
SpecFvgNext ==
    /\ FvgNext
    /\ UNCHANGED <<v_vars, b_vars, d_vars, t_vars, a_vars, o_vars,
                   l_vars, s_vars, p_vars, c_vars, h_vars>>
SpecFvg == SpecFvgInit /\ [][SpecFvgNext]_vars

\* One pruning of the Order-Block Detector's candidates.
SpecOrderBlocksInit ==
    /\ OrderBlocksInit
    /\ ValidatorIdle /\ BuilderIdle /\ DealingRangeIdle
    /\ DayTypeIdle /\ BiasIdle /\ FvgIdle
    /\ LiquidityIdle /\ StructureIdle /\ PipelineIdle
    /\ CacheIdle /\ FetchIdle
SpecOrderBlocksNext ==
    /\ RemoveOverlappingObs
    /\ UNCHANGED <<v_vars, b_vars, d_vars, t_vars, a_vars, f_vars,
                   l_vars, s_vars, p_vars, c_vars, h_vars>>
SpecOrderBlocks == SpecOrderBlocksInit /\ [][SpecOrderBlocksNext]_vars

\* One merge of the Liquidity Detector's zones.
SpecLiquidityInit ==
    /\ LiquidityInit
    /\ ValidatorIdle /\ BuilderIdle /\ DealingRangeIdle
    /\ DayTypeIdle /\ BiasIdle /\ FvgIdle
    /\ OrderBlocksIdle /\ StructureIdle /\ PipelineIdle
    /\ CacheIdle /\ FetchIdle
SpecLiquidityNext ==
    /\ MergeNearbyZones
    /\ UNCHANGED <<v_vars, b_vars, d_vars, t_vars, a_vars, f_vars,
                   o_vars, s_vars, p_vars, c_vars, h_vars>>
SpecLiquidity == SpecLiquidityInit /\ [][SpecLiquidityNext]_vars

\* One run of the market-structure scanner on bounded frames.
SpecStructureInit ==
    /\ StructureInit
    /\ ValidatorIdle /\ BuilderIdle /\ DealingRangeIdle
    /\ DayTypeIdle /\ BiasIdle /\ FvgIdle
    /\ OrderBlocksIdle /\ LiquidityIdle /\ PipelineIdle
    /\ CacheIdle /\ FetchIdle
SpecStructureNext ==
    /\ AnalyzeMarketStructure
    /\ UNCHANGED <<v_vars, b_vars, d_vars, t_vars, a_vars, f_vars,
                   o_vars, l_vars, p_vars, c_vars, h_vars>>
SpecStructure == SpecStructureInit /\ [][SpecStructureNext]_vars

\* The analysis components run in any order on one bar table.
SpecPipelineInit ==
    /\ PipelineInit
    /\ ValidatorIdle /\ BuilderIdle /\ DealingRangeIdle
    /\ DayTypeIdle /\ BiasIdle /\ FvgIdle
    /\ OrderBlocksIdle /\ LiquidityIdle /\ StructureIdle
    /\ CacheIdle /\ FetchIdle
SpecPipelineNext ==
    /\ PipelineNext
    /\ UNCHANGED <<v_vars, b_vars, d_vars, t_vars, a_vars, f_vars,
                   o_vars, l_vars, s_vars, c_vars, h_vars>>
SpecPipeline == SpecPipelineInit /\ [][SpecPipelineNext]_vars

\* Lookups, builder returns and clock advances on the coach's context cache.
SpecCacheInit ==
    /\ CacheInit
    /\ ValidatorIdle /\ BuilderIdle /\ DealingRangeIdle
    /\ DayTypeIdle /\ BiasIdle /\ FvgIdle
    /\ OrderBlocksIdle /\ LiquidityIdle /\ StructureIdle
    /\ PipelineIdle /\ FetchIdle
SpecCacheNext ==
    /\ CacheNext
    /\ UNCHANGED <<v_vars, b_vars, d_vars, t_vars, a_vars, f_vars,
                   o_vars, l_vars, s_vars, p_vars, h_vars>>
SpecCache == SpecCacheInit /\ [][SpecCacheNext]_vars

\* One call of fetch_ohlcv: attempts, sleeps, parse.
SpecFetchInit ==
    /\ FetchInit
    /\ ValidatorIdle /\ BuilderIdle /\ DealingRangeIdle
    /\ DayTypeIdle /\ BiasIdle /\ FvgIdle
    /\ OrderBlocksIdle /\ LiquidityIdle /\ StructureIdle
    /\ PipelineIdle /\ CacheIdle
SpecFetchNext ==
    /\ FetchNext
    /\ UNCHANGED <<v_vars, b_vars, d_vars, t_vars, a_vars, f_vars,
                   o_vars, l_vars, s_vars, p_vars, c_vars>>
SpecFetch == SpecFetchInit /\ [][SpecFetchNext]_vars

(***************************************************************************)
(* Properties of the Plan Validator (checked under SpecValidator)          *)
(***************************************************************************)

\* A field is present when the stored dict carries a number for it, 0
\* included.
HasEntryAndStop(plan) ==
    plan.kind = "dict" /\ plan.high.some /\ plan.low.some /\ plan.stop_loss.some

HasAllFour(plan) == HasEntryAndStop(plan) /\ plan.invalidation.some

\* The hard breach of the specification; a missing invalidation price
\* cannot be hit.
SpecBreach(plan, price, direction) ==
    IF direction = "long"
    THEN (plan.invalidation.some /\ price <= plan.invalidation.v) \/ price <= plan.stop_loss.v
    ELSE (plan.invalidation.some /\ price >= plan.invalidation.v) \/ price >= plan.stop_loss.v

InsideZone(plan, price) == plan.low.v <= price /\ price <= plan.high.v

ApproachSide(plan, price, direction) ==
    IF direction = "long" THEN price > plan.high.v ELSE price < plan.low.v

\* C1: with entry zone, stop and invalidation present, the latest call
\* answered INVALIDATED exactly when its price is a hard breach for its
\* direction, whether or not the price also lies inside the entry zone.
C1_HardBreachPrecedence ==
    (v_call.made /\ HasAllFour(v_plan)) =>
        /\ ~v_result.raised
        /\ v_result.status = "INVALIDATED"
              <=> SpecBreach(v_plan, v_call.price, v_call.direction)

\* C2: for a scenario with entry zone and stop present and a price that is
\* no hard breach, the answer is WAITING exactly on the approach side of the
\* zone and ACTIVE otherwise.
C2_WaitingOrActive ==
    (/\ v_call.made
     /\ HasEntryAndStop(v_plan)
     /\ ~SpecBreach(v_plan, v_call.price, v_call.direction)) =>
        /\ ~v_result.raised
        /\ v_result.status =
              IF ApproachSide(v_plan, v_call.price, v_call.direction)
              THEN "WAITING" ELSE "ACTIVE"

C4_Total ==
    (v_call.made /\ HasEntryAndStop(v_plan)) => ~v_result.raised

\* C5: the answer is N/A exactly when the scenario is missing or lacks
\* entry_zone.high, entry_zone.low or stop_loss; a present field counts
\* whatever its value, 0 included.
C5_NotApplicableIffIncomplete ==
    v_call.made => (v_result.status = "N/A" <=> ~HasEntryAndStop(v_plan))

(***************************************************************************)
(* Properties of the Scenario Builder (checked under SpecBuilder)          *)
(***************************************************************************)

Built == b_pc = "built"
AllFvgs == b_in.intraday_fvgs \o b_in.htf_fvgs
Equilibrium == b_in.low + (b_in.high - b_in.low) \div 2
Grades == {"A", "B", "C+", "C", "C-", "INVALID"}
Elems(seq) == {seq[i] : i \in 1..Len(seq)}
Dist(a, b) == IF a >= b THEN a - b ELSE b - a

StrictlyIncreasing(seq) == \A i \in 1..(Len(seq) - 1) : seq[i] < seq[i + 1]
StrictlyDecreasing(seq) == \A i \in 1..(Len(seq) - 1) : seq[i] > seq[i + 1]

\* Reward to the first and to the second target and the risk, from the
\* builder's unrounded entry, stop and targets.
LongRisk(s) == s.entry_high - s.raw_stop_loss
LongReward(s, k) == s.raw_targets[k] - s.entry_high
ShortRisk(s) == s.raw_stop_loss - s.entry_low
ShortReward(s, k) == s.entry_low - s.raw_targets[k]

\* C6: the returned targets are strictly increasing and above the returned
\* entry_zone.high (long), strictly decreasing and below entry_zone.low
\* (short), for every input, the degenerate range high = low included.
C6_TargetsStrictlyOrdered ==
    Built =>
        /\ StrictlyIncreasing(b_long.targets)
        /\ \A i \in 1..Len(b_long.targets) : b_long.targets[i] > b_long.entry_zone.high
        /\ StrictlyDecreasing(b_short.targets)
        /\ \A i \in 1..Len(b_short.targets) : b_short.targets[i] < b_short.entry_zone.low

\* C7: a scenario is always returned with a grade, the risk is positive, and
\* the grade is INVALID exactly when reward-to-first-target / risk < 1.0,
\* that is when the first reward is smaller than the risk.
C7_InvalidIffLowRewardRisk ==
    Built =>
        /\ b_long.setup_quality \in Grades
        /\ b_short.setup_quality \in Grades
        /\ LongRisk(b_long) > 0
        /\ ShortRisk(b_short) > 0
        /\ b_long.setup_quality = "INVALID" <=> LongReward(b_long, 1) < LongRisk(b_long)
        /\ b_short.setup_quality = "INVALID" <=> ShortReward(b_short, 1) < ShortRisk(b_short)

\* C7 witness: one run returns an INVALID long scenario next to a short
\* scenario that keeps a tradable grade.
C7_Witness ==
    /\ Built
    /\ b_long.setup_quality = "INVALID"
    /\ LongReward(b_long, 1) < LongRisk(b_long)
    /\ b_short.setup_quality \in {"A", "B", "C+", "C"}

\* C8 as claimed: risk_reward is always computed from the reward to the
\* first target.
C8_RiskRewardFromFirstTarget ==
    Built =>
        /\ b_long.reward = LongReward(b_long, 1)
        /\ b_long.risk_reward = RoundRatio2(LongReward(b_long, 1), LongRisk(b_long))
        /\ b_short.reward = ShortReward(b_short, 1)
        /\ b_short.risk_reward = RoundRatio2(ShortReward(b_short, 1), ShortRisk(b_short))

\* The target whose reward the builder reports: the second when the first
\* target's ratio lies in [1.0, 2.0), the first otherwise.
ReportedTarget(first_reward, risk) ==
    IF first_reward >= risk /\ first_reward < 2 * risk THEN 2 ELSE 1

\* C8 as amended: risk_reward is the reward to the first target over the
\* risk when that ratio is below 1.0 or at least 2.0, and the reward to the
\* second target over the risk when it lies in [1.0, 2.0).
C8_RiskRewardRetargeted ==
    Built =>
        /\ LET k == ReportedTarget(LongReward(b_long, 1), LongRisk(b_long))
           IN  /\ b_long.reward = LongReward(b_long, k)
               /\ b_long.risk_reward = RoundRatio2(LongReward(b_long, k), LongRisk(b_long))
        /\ LET k == ReportedTarget(ShortReward(b_short, 1), ShortRisk(b_short))
           IN  /\ b_short.reward = ShortReward(b_short, k)
               /\ b_short.risk_reward = RoundRatio2(ShortReward(b_short, k), ShortRisk(b_short))

\* C8 witness: a long scenario whose first-target ratio lies in [1.0, 2.0)
\* and whose reported risk_reward is the second target's, not the first's.
C8_Witness ==
    /\ Built
    /\ ReportedTarget(LongReward(b_long, 1), LongRisk(b_long)) = 2
    /\ b_long.risk_reward = RoundRatio2(LongReward(b_long, 2), LongRisk(b_long))
    /\ b_long.risk_reward # RoundRatio2(LongReward(b_long, 1), LongRisk(b_long))

\* The stage that fixed the entry, read off the builder's own flags.
Stage(s) ==
    IF s.has_fvg THEN (IF s.is_continuation THEN "continuation" ELSE "ideal")
    ELSE IF s.market_execution_mode THEN "market_execution"
    ELSE "math_fallback"

Reachable(edge) == Dist(edge, b_in.current_price) <= ADR \div 2

\* What each stage needs in order to succeed, from the inputs of the run.
LongIdeal(f) ==
    f.direction = "bullish" /\ ~f.invalidated /\ f.high < Equilibrium /\ Reachable(f.high)
LongContinuation(f) ==
    f.direction = "bullish" /\ ~f.invalidated /\ f.high < b_in.current_price
LongFar(f) == f.direction = "bullish" /\ ~f.invalidated /\ f.high < Equilibrium
ShortIdeal(f) ==
    f.direction = "bearish" /\ ~f.invalidated /\ f.low > Equilibrium /\ Reachable(f.low)
ShortContinuation(f) ==
    f.direction = "bearish" /\ ~f.invalidated /\ f.low > b_in.current_price
ShortFar(f) == f.direction = "bearish" /\ ~f.invalidated /\ f.low > Equilibrium

FirstStage(ideal, continuation, far) ==
    IF ideal THEN "ideal"
    ELSE IF continuation THEN "continuation"
    ELSE IF far THEN "market_execution"
    ELSE "math_fallback"

EntryIsFvg(s) ==
    /\ s.entry_zone.high = Round2(s.selected_fvg.high)
    /\ s.entry_zone.low = Round2(s.selected_fvg.low)

Discount == b_in.low + ((b_in.high - b_in.low) * 382) \div 1000
Premium == b_in.low + ((b_in.high - b_in.low) * 618) \div 1000

\* C9: the stages are tried in the order ideal, continuation, market
\* execution, math fallback and the first that succeeds fixes the entry; the
\* grade is one of A, B, C+, C, C-, INVALID; A only on an ideal FVG entry, B
\* only on a continuation intraday FVG entry, C+ only in market-execution
\* mode (entry = price, stop 2.0 away), C only in the math fallback (entry =
\* discount/premium level +/- 1.0, stop 2.5 beyond the zone).
C9_StageOrderAndGrades ==
    Built =>
        /\ Stage(b_long) = FirstStage(\E f \in Elems(AllFvgs) : LongIdeal(f),
                                      \E f \in Elems(b_in.intraday_fvgs) : LongContinuation(f),
                                      \E f \in Elems(AllFvgs) : LongFar(f))
        /\ Stage(b_short) = FirstStage(\E f \in Elems(AllFvgs) : ShortIdeal(f),
                                       \E f \in Elems(b_in.intraday_fvgs) : ShortContinuation(f),
                                       \E f \in Elems(AllFvgs) : ShortFar(f))
        /\ b_long.setup_quality \in Grades
        /\ b_short.setup_quality \in Grades
        /\ b_long.setup_quality = "A" =>
              /\ Stage(b_long) = "ideal"
              /\ b_long.selected_fvg \in Elems(AllFvgs)
              /\ LongFar(b_long.selected_fvg)
              /\ EntryIsFvg(b_long)
        /\ b_short.setup_quality = "A" =>
              /\ Stage(b_short) = "ideal"
              /\ b_short.selected_fvg \in Elems(AllFvgs)
              /\ ShortFar(b_short.selected_fvg)
              /\ EntryIsFvg(b_short)
        /\ b_long.setup_quality = "B" =>
              /\ Stage(b_long) = "continuation"
              /\ b_long.selected_fvg \in Elems(b_in.intraday_fvgs)
              /\ LongContinuation(b_long.selected_fvg)
              /\ EntryIsFvg(b_long)
        /\ b_short.setup_quality = "B" =>
              /\ Stage(b_short) = "continuation"
              /\ b_short.selected_fvg \in Elems(b_in.intraday_fvgs)
              /\ ShortContinuation(b_short.selected_fvg)
              /\ EntryIsFvg(b_short)
        /\ b_long.setup_quality = "C+" =>
              /\ Stage(b_long) = "market_execution"
              /\ b_long.entry_zone.high = Round2(b_in.current_price)
              /\ b_long.entry_zone.low = Round2(b_in.current_price)
              /\ b_long.stop_loss = Round2(b_in.current_price - 2 * ONE)
        /\ b_short.setup_quality = "C+" =>
              /\ Stage(b_short) = "market_execution"
              /\ b_short.entry_zone.high = Round2(b_in.current_price)
              /\ b_short.entry_zone.low = Round2(b_in.current_price)
              /\ b_short.stop_loss = Round2(b_in.current_price + 2 * ONE)
        /\ b_long.setup_quality = "C" =>
              /\ Stage(b_long) = "math_fallback"
              /\ b_long.entry_zone.high = Round2(Discount + ONE)
              /\ b_long.entry_zone.low = Round2(Discount - ONE)
              /\ b_long.stop_loss = Round2(Discount - ONE - (5 * ONE) \div 2)
        /\ b_short.setup_quality = "C" =>
              /\ Stage(b_short) = "math_fallback"
              /\ b_short.entry_zone.high = Round2(Premium + ONE)
              /\ b_short.entry_zone.low = Round2(Premium - ONE)
              /\ b_short.stop_loss = Round2(Premium + ONE + (5 * ONE) \div 2)

\* C9 witness: an ideal FVG and a continuation FVG are both on offer for the
\* long side and the ideal one fixes the entry with grade A, while the short
\* side of the same run falls through to market execution with grade C+.
C9_Witness ==
    /\ Built
    /\ \E f \in Elems(b_in.intraday_fvgs) : LongContinuation(f)
    /\ Stage(b_long) = "ideal"
    /\ b_long.setup_quality = "A"
    /\ Stage(b_short) = "market_execution"
    /\ b_short.setup_quality = "C+"

\* C10 as claimed: every FVG used as an entry zone, from the ideal or from
\* the continuation stage, has its edge within 0.5 * ADR of the price.
C10_EveryEntryFvgReachable ==
    Built =>
        /\ b_long.has_fvg => Reachable(b_long.selected_fvg.high)
        /\ b_short.has_fvg => Reachable(b_short.selected_fvg.low)

\* C10 as amended: every FVG the ideal stage selects has its edge (high for
\* long, low for short) within 0.5 * ADR of the current price, ADR being the
\* builders' fixed 5.0; the continuation stage applies no such gate.
C10_IdealEntryFvgReachable ==
    Built =>
        /\ Stage(b_long) = "ideal" => Reachable(b_long.selected_fvg.high)
        /\ Stage(b_short) = "ideal" => Reachable(b_short.selected_fvg.low)

\* C10 witness: the ideal stage selects a reachable FVG for the long side
\* although a bullish discount FVG beyond reach, with a higher edge, is on
\* offer too.
C10_Witness ==
    /\ Built
    /\ Stage(b_long) = "ideal"
    /\ Reachable(b_long.selected_fvg.high)
    /\ \E f \in Elems(AllFvgs) :
          LongFar(f) /\ ~Reachable(f.high) /\ f.high > b_long.selected_fvg.high

\* The ideal candidates of a run and the group the ideal stage prefers:
\* the mitigated candidates if there are any, otherwise all of them.
LongIdealCandidates == {f \in Elems(AllFvgs) : LongIdeal(f)}
ShortIdealCandidates == {f \in Elems(AllFvgs) : ShortIdeal(f)}
PreferredGroup(cands) ==
    IF \E f \in cands : f.mitigated THEN {f \in cands : f.mitigated} ELSE cands

\* C11: in the ideal stage the selected FVG is a mitigated one whenever a
\* mitigated candidate exists, and within the preferred group it is the one
\* whose entry edge (high for long, low for short) is nearest to the
\* current price.
C11_IdealPrefersMitigatedNearest ==
    Built =>
        /\ Stage(b_long) = "ideal" =>
              /\ b_long.selected_fvg \in PreferredGroup(LongIdealCandidates)
              /\ \A f \in PreferredGroup(LongIdealCandidates) :
                    Dist(b_long.selected_fvg.high, b_in.current_price)
                        <= Dist(f.high, b_in.current_price)
        /\ Stage(b_short) = "ideal" =>
              /\ b_short.selected_fvg \in PreferredGroup(ShortIdealCandidates)
              /\ \A f \in PreferredGroup(ShortIdealCandidates) :
                    Dist(b_short.selected_fvg.low, b_in.current_price)
                        <= Dist(f.low, b_in.current_price)

(***************************************************************************)
(* Properties of the Dealing-Range Builder (checked under SpecDealingRange)*)
(***************************************************************************)

RangeReturned == d_pc = "done" /\ ~d_out.raised

\* C12: every returned dealing range has equilibrium = low + 0.5*(high-low),
\* premium = low + 0.618*(high-low), discount = low + 0.382*(high-low), and
\* low < discount < equilibrium < premium < high whenever high > low.
C12_ZoneLevels ==
    RangeReturned =>
        LET z == d_out.zones
        IN  /\ 1000 * (z.equilibrium - z.low) = 500 * (z.high - z.low)
            /\ 1000 * (z.premium - z.low) = 618 * (z.high - z.low)
            /\ 1000 * (z.discount - z.low) = 382 * (z.high - z.low)
            /\ z.high > z.low =>
                  /\ z.low < z.discount
                  /\ z.discount < z.equilibrium
                  /\ z.equilibrium < z.premium
                  /\ z.premium < z.high

\* C12 witness: the range high = 110, low = 100 is returned with
\* equilibrium 105, premium 106.18 and discount 103.82.
C12_Witness ==
    /\ RangeReturned
    /\ d_out.zones.high = 11000 * CENT
    /\ d_out.zones.low = 10000 * CENT
    /\ d_out.zones.equilibrium = 10500 * CENT
    /\ d_out.zones.premium = 10618 * CENT
    /\ d_out.zones.discount = 10382 * CENT

\* The daily bars of the first fetch by date, latest first.
DailyFetched == ~d_in.daily.raised /\ d_in.daily.bars # <<>>
DailySet == {d_in.daily.bars[i] : i \in 1..Len(d_in.daily.bars)}
LatestBar == CHOOSE b \in DailySet : \A c \in DailySet : c.date <= b.date
BarBeforeLatest ==
    CHOOSE b \in DailySet \ {LatestBar} : \A c \in DailySet \ {LatestBar} : c.date <= b.date

\* The previous completed daily bar, when the first stage has one.
PrevDayAvailable ==
    DailyFetched /\ (LatestBar.date < TodayNy \/ Cardinality(DailySet) >= 2)
PrevDayBar == IF LatestBar.date < TodayNy THEN LatestBar ELSE BarBeforeLatest
RecentSet == {d_in.recent.bars[i] : i \in 1..Len(d_in.recent.bars)}

\* C13: the source is the first of prev_day, htf, recent_1D that yields a
\* high/low: the latest daily bar if dated before today, else the bar before
\* it (needs 2 bars); else the HTF analysis range; else the min/max of the
\* trailing daily bars; and the recorded source names the stage whose
\* high/low is returned.
C13_SourceOrder ==
    RangeReturned =>
        LET z == d_out.zones
        IN  /\ z.source \in {"prev_day", "htf", "recent_1D"}
            /\ z.source = "prev_day" <=> PrevDayAvailable
            /\ z.source = "htf" <=> (~PrevDayAvailable /\ d_in.htf.some)
            /\ z.source = "recent_1D" <=> (~PrevDayAvailable /\ ~d_in.htf.some)
            /\ z.source = "prev_day" =>
                  z.high = PrevDayBar.high /\ z.low = PrevDayBar.low
            /\ z.source = "htf" =>
                  z.high = d_in.htf.high /\ z.low = d_in.htf.low
            /\ z.source = "recent_1D" =>
                  /\ z.high \in {b.high : b \in RecentSet}
                  /\ z.low \in {b.low : b \in RecentSet}
                  /\ \A b \in RecentSet : b.high <= z.high /\ b.low >= z.low

\* C13 witness: the latest daily bar is today's, so the bar before it gives
\* the range although an HTF range is on offer too, and the fetch returned
\* the bars out of date order.
C13_Witness ==
    /\ RangeReturned
    /\ DailyFetched
    /\ LatestBar.date = TodayNy
    /\ d_in.daily.bars[1] = LatestBar
    /\ d_in.htf.some
    /\ d_out.zones.source = "prev_day"
    /\ d_out.zones.high = BarBeforeLatest.high
    /\ d_out.zones.high # LatestBar.high
    /\ d_out.zones.high # d_in.htf.high

\* C14: for every combination of source availability the Dealing-Range
\* Builder returns a range with a recorded source and propagates no error.
C14_NeverFails ==
    d_pc = "done" =>
        /\ ~d_out.raised
        /\ d_out.zones.source \in {"prev_day", "htf", "recent_1D"}

(***************************************************************************)
(* Properties of the Day-Type Classifier (checked under SpecDayType)       *)
(***************************************************************************)

Classified == t_pc = "done"
BslSwept == \E i \in 1..Len(t_in.sweeps) : t_in.sweeps[i] = "BSL"
SslSwept == \E i \in 1..Len(t_in.sweeps) : t_in.sweeps[i] = "SSL"
StrongObCount == Cardinality({i \in 1..Len(t_in.order_blocks) : t_in.order_blocks[i] > 70})
UnfilledCount == Cardinality({i \in 1..Len(t_in.fvgs) : ~t_in.fvgs[i]})

\* The scores as specified: bias non-neutral trend +2 else consolidation +2;
\* both sweeps reversal +3, exactly one trend +2, none consolidation +2; a
\* strong order block reversal +1; more than 2 unfilled FVGs trend +1.
SpecTrend ==
    (IF t_in.htf_bias # "neutral" THEN 2 ELSE 0)
  + (IF BslSwept # SslSwept THEN 2 ELSE 0)
  + (IF UnfilledCount > 2 THEN 1 ELSE 0)
SpecReversal ==
    (IF BslSwept /\ SslSwept THEN 3 ELSE 0) + (IF StrongObCount >= 1 THEN 1 ELSE 0)
SpecConsolidation ==
    (IF t_in.htf_bias = "neutral" THEN 2 ELSE 0)
  + (IF ~BslSwept /\ ~SslSwept THEN 2 ELSE 0)
SpecTop == Max2(SpecTrend, Max2(SpecReversal, SpecConsolidation))

\* C15: trend iff trend_score >= max(reversal, consolidation) + 1, otherwise
\* reversal iff reversal_score >= max(trend, consolidation) + 1, otherwise
\* consolidation, on the scores built as specified; so a tie for the highest
\* score yields consolidation and reversal needs both a buy-side and a
\* sell-side sweep.
C15_DayTypeByMargin ==
    Classified =>
        /\ t_out.trend_score = SpecTrend
        /\ t_out.reversal_score = SpecReversal
        /\ t_out.consolidation_score = SpecConsolidation
        /\ t_out.day_type \in {"trend", "reversal", "consolidation"}
        /\ t_out.day_type = "trend" <=>
              SpecTrend >= Max2(SpecReversal, SpecConsolidation) + 1
        /\ t_out.day_type = "reversal" <=>
              /\ ~(SpecTrend >= Max2(SpecReversal, SpecConsolidation) + 1)
              /\ SpecReversal >= Max2(SpecTrend, SpecConsolidation) + 1
        /\ Cardinality({k \in {"t", "r", "c"} :
                           SpecTop = (IF k = "t" THEN SpecTrend
                                      ELSE IF k = "r" THEN SpecReversal
                                      ELSE SpecConsolidation)}) >= 2
              => t_out.day_type = "consolidation"
        /\ t_out.day_type = "reversal" => BslSwept /\ SslSwept

\* C15 witness: both sides swept and more than 2 unfilled FVGs under a
\* non-neutral bias tie trend and reversal at 3, and the day is classified
\* consolidation although consolidation scores 0.
C15_Witness ==
    /\ Classified
    /\ BslSwept /\ SslSwept
    /\ t_out.trend_score = 3
    /\ t_out.reversal_score = 3
    /\ t_out.consolidation_score = 0
    /\ t_out.day_type = "consolidation"

(***************************************************************************)
(* Properties of the Bias Classifier (checked under SpecBias)              *)
(***************************************************************************)

BiasDone == a_pc = "done"
Sides == {"bullish", "bearish", "none"}
SideScore(side, ma, swing, momentum) ==
    (IF ma = side THEN 2 ELSE 0) + (IF swing = side THEN 2 ELSE 0)
  + (IF momentum = side THEN 1 ELSE 0)

\* C16: fewer than 20 bars give NEUTRAL; otherwise BULLISH iff
\* bullish_score >= bearish_score + 2, BEARISH iff bearish_score >=
\* bullish_score + 2, NEUTRAL otherwise, where the moving-average stack (+2),
\* the 20-bar high/low comparison (+2) and the 10-bar momentum (+1) each add
\* to at most one side; BULLISH and BEARISH exclude each other.
C16_BiasByMargin ==
    BiasDone =>
        /\ Len(a_df) < 20 => a_out.bias = "neutral"
        /\ Len(a_df) >= 20 =>
              /\ \E ma \in Sides, swing \in Sides, momentum \in Sides :
                    /\ a_out.bullish_score = SideScore("bullish", ma, swing, momentum)
                    /\ a_out.bearish_score = SideScore("bearish", ma, swing, momentum)
              /\ a_out.bias = "bullish" <=> a_out.bullish_score >= a_out.bearish_score + 2
              /\ a_out.bias = "bearish" <=> a_out.bearish_score >= a_out.bullish_score + 2
              /\ a_out.bias = "neutral" <=>
                    /\ a_out.bullish_score < a_out.bearish_score + 2
                    /\ a_out.bearish_score < a_out.bullish_score + 2
        /\ a_out.bias \in {"bullish", "bearish", "neutral"}

\* C16 witness: price above the 20-bar mean above the 50-bar mean, higher
\* highs and higher lows, but more than 2 % down over 10 bars: 4 against 1,
\* BULLISH.
C16_Witness ==
    /\ BiasDone
    /\ Len(a_df) >= 50
    /\ a_df[Len(a_df)].close < a_df[Len(a_df) - 9].close
    /\ a_out.bullish_score = 4
    /\ a_out.bearish_score = 1
    /\ a_out.bias = "bullish"

(***************************************************************************)
(* Properties of the FVG Detector (checked under SpecFvg)                  *)
(***************************************************************************)

FvgSet == {f_fvgs[i] : i \in 1..Len(f_fvgs)}
\* The lookback tail of the series, as positions of the series.
InTail(i) == i >= 1 /\ i <= Len(f_df) /\ i > Len(f_df) - f_lookback
\* Triples (i-2, i-1, i) of the tail, named by i.
Triples == {i \in 1..Len(f_df) : InTail(i - 2)}
BullishTriple(i) == f_df[i - 2].high < f_df[i].low
BearishTriple(i) == f_df[i - 2].low > f_df[i].high
EmittedAt(i) == {g \in FvgSet : g.timestamp = i}

\* C17: on every series of at least 3 bars the detector emits exactly one
\* FVG per triple of the lookback tail with high[i-2] < low[i] (bullish, low
\* = high[i-2], high = low[i]) or low[i-2] > high[i] (bearish, high =
\* low[i-2], low = high[i]), none for other triples, each with gap_size =
\* high - low > 0.
C17_OneFvgPerGapFromThreeBars ==
    (f_pc # "idle" /\ Len(f_df) >= 3) =>
        /\ Len(f_fvgs) = Cardinality(FvgSet)
        /\ \A g \in FvgSet : g.timestamp \in Triples /\ g.gap_size = g.high - g.low
                             /\ g.gap_size > 0
        /\ \A i \in Triples :
              /\ BullishTriple(i) =>
                    \E g \in FvgSet :
                        /\ EmittedAt(i) = {g}
                        /\ g.direction = "bullish"
                        /\ g.low = f_df[i - 2].high
                        /\ g.high = f_df[i].low
              /\ BearishTriple(i) =>
                    \E g \in FvgSet :
                        /\ EmittedAt(i) = {g}
                        /\ g.direction = "bearish"
                        /\ g.high = f_df[i - 2].low
                        /\ g.low = f_df[i].high
              /\ ~BullishTriple(i) /\ ~BearishTriple(i) => EmittedAt(i) = {}

\* One re-run of the detector on the series with one more bar: no FVG that
\* is in both results loses a flag, and filled = invalidated throughout.
FlagsKept ==
    /\ \A i \in 1..Len(f_fvgs) : \A j \in 1..Len(f_fvgs') :
          f_fvgs[i].timestamp = f_fvgs'[j].timestamp =>
              /\ f_fvgs[i].mitigated => f_fvgs'[j].mitigated
              /\ f_fvgs[i].invalidated => f_fvgs'[j].invalidated
    /\ \A j \in 1..Len(f_fvgs') : f_fvgs'[j].filled = f_fvgs'[j].invalidated

\* C18: as bars are appended one at a time and the detector is re-run, an
\* FVG still inside the lookback window never goes from mitigated back to
\* unmitigated nor from invalidated back to valid, and filled equals
\* invalidated in every result.
C18_FlagsMonotone == [][FlagsKept]_vars

\* C18 witness: a result holds an FVG that is mitigated and invalidated
\* although the latest candle stays clear of its zone (the flags were set by
\* an earlier candle), next to the detector having slid its window past the
\* start of the series.
C18_Witness ==
    /\ f_pc = "warm"
    /\ Len(f_df) > f_lookback
    /\ \E g \in FvgSet :
          /\ g.direction = "bullish"
          /\ g.mitigated /\ g.invalidated /\ g.filled
          /\ g.timestamp < Len(f_df) - 1
          /\ f_df[Len(f_df)].low > g.high

(***************************************************************************)
(* Properties of the Order-Block pruning (checked under SpecOrderBlocks)   *)
(***************************************************************************)

Pruned == o_pc = "done"
CandidateSet == {o_in[i] : i \in 1..Len(o_in)}
RetainedSet == {o_out[i] : i \in 1..Len(o_out)}
DiscardedSet == CandidateSet \ RetainedSet
\* Two blocks are apart when one's high is strictly below the other's low.
Apart(x, y) == x.high < y.low \/ y.high < x.low
Intersect(x, y) == ~Apart(x, y)

\* C19: no two retained blocks overlap in price range, blocks that touch at
\* an endpoint counting as overlapping.
C19_RetainedDisjoint ==
    Pruned => \A x \in RetainedSet, y \in RetainedSet : x # y => Apart(x, y)

\* C19 witness: two candidates touch at an endpoint, one of them is
\* dropped, and more than one block is retained.
C19_Witness ==
    /\ Pruned
    /\ Cardinality(RetainedSet) >= 2
    /\ \E x \in RetainedSet, y \in DiscardedSet : x.high = y.low

\* Clusters: candidates connected by chains of pairwise intersections (a
\* chain among at most MaxCandidates + 1 candidates has at most that many
\* links).
RECURSIVE Linked(_, _, _)
Linked(x, y, n) ==
    \/ x = y
    \/ n > 0 /\ \E z \in CandidateSet : Intersect(x, z) /\ Linked(z, y, n - 1)
Cluster(x) == {y \in CandidateSet : Linked(x, y, Cardinality(CandidateSet))}
StrongestOf(S) == {x \in S : \A y \in S : y.strength <= x.strength}

\* C20 as claimed: of every cluster of overlapping candidates only the
\* highest-strength block is kept; the globally strongest candidate is
\* retained and every discarded candidate overlaps a retained block at least
\* as strong.
C20_OnePerCluster ==
    Pruned =>
        /\ \A x \in CandidateSet :
              /\ Cardinality(Cluster(x) \cap RetainedSet) = 1
              /\ Cluster(x) \cap RetainedSet \subseteq StrongestOf(Cluster(x))
        /\ CandidateSet # {} => StrongestOf(CandidateSet) \cap RetainedSet # {}
        /\ \A y \in DiscardedSet :
              \E x \in RetainedSet : Intersect(x, y) /\ x.strength >= y.strength

\* x is tried before y by the pruning: stronger, or as strong and detected
\* earlier.
Before(x, y) ==
    x.strength > y.strength \/ (x.strength = y.strength /\ x.timestamp < y.timestamp)

\* C20 as amended: pruning is greedy by descending strength: a candidate is
\* retained exactly when it overlaps no retained candidate tried before it;
\* so a highest-strength block of every cluster, the globally strongest
\* candidate included, is retained, and every discarded candidate overlaps a
\* retained block at least as strong; a cluster may keep several blocks.
C20_GreedyByStrength ==
    Pruned =>
        /\ RetainedSet \subseteq CandidateSet
        /\ \A y \in CandidateSet :
              y \in RetainedSet <=>
                  ~\E x \in RetainedSet : Before(x, y) /\ Intersect(x, y)
        /\ \A x \in CandidateSet :
              StrongestOf(Cluster(x)) \cap RetainedSet # {}
        /\ CandidateSet # {} => StrongestOf(CandidateSet) \cap RetainedSet # {}
        /\ \A y \in DiscardedSet :
              \E x \in RetainedSet : Intersect(x, y) /\ x.strength >= y.strength

\* C20 witness: a chain of three candidates, the middle one discarded for
\* overlapping the strongest, and the weakest retained next to the strongest
\* because it overlaps only the discarded one.
C20_Witness ==
    /\ Pruned
    /\ \E x \in RetainedSet, y \in DiscardedSet, z \in RetainedSet :
          /\ x.strength > y.strength /\ y.strength > z.strength
          /\ Intersect(x, y) /\ Intersect(y, z) /\ Apart(x, z)
          /\ y.timestamp < x.timestamp

(***************************************************************************)
(* Properties of the liquidity-zone merge (checked under SpecLiquidity)    *)
(***************************************************************************)

\* C21: in every merged result any two distinct zones of the same zone_type
\* differ in price by more than 0.2 % (relative to the lower of the two),
\* lists in which buy_side and sell_side zones interleave included.
C21_MergedZonesApart ==
    l_pc = "done" =>
        \A i \in 1..Len(l_out), j \in 1..Len(l_out) :
            (i # j /\ l_out[i].zone_type = l_out[j].zone_type
                   /\ l_out[i].price <= l_out[j].price)
                => 1000 * (l_out[j].price - l_out[i].price) > 2 * l_out[i].price

(***************************************************************************)
(* Properties of the market-structure scanner (checked under SpecStructure)*)
(***************************************************************************)

StructureLabels ==
    {"higher_highs_higher_lows", "higher_highs", "lower_highs_lower_lows",
     "lower_lows", "ranging", "choppy"}

\* C22: fewer than 20 bars give 'insufficient_data'; 20 bars or more give one
\* of the six structure labels, never 'insufficient_data'.
C22_InsufficientBelowTwenty ==
    s_pc = "done" =>
        /\ Len(s_df) < 20 => s_out = "insufficient_data"
        /\ Len(s_df) >= 20 => s_out \in StructureLabels

(***************************************************************************)
(* Properties of the analysis pipeline (checked under SpecPipeline)        *)
(***************************************************************************)

\* C23: every detection and scoring function leaves the bar table passed to
\* it unchanged: the same rows, the same columns, the same values after the
\* call as before, in whatever order the components run.
C23_TableUnchanged ==
    p_pc = "analyzing" =>
        /\ p_table.rows = p_given.rows
        /\ p_table.columns = p_given.columns

(***************************************************************************)
(* Properties of the context cache (checked under SpecCache)               *)
(***************************************************************************)

\* The call whose builder returns in this step, and its key.
Returning == CHOOSE call \in c_pending : call \notin c_pending'
ReturningKey == cache_key(Returning.session_id, Returning.identifier)
BuilderReturned == c_pending' # c_pending /\ c_pending' \subseteq c_pending

\* A section is served from the cache only at an age of at most the TTL.
ServedWithinTtl ==
    (c_last' # c_last /\ c_last'.kind = "hit")
        => c_last'.age <= CONTEXT_CACHE_TTL_SECONDS

\* An entry is removed or replaced only by expiry on a lookup (the entry is
\* older than the TTL and a call for its key starts waiting) or by the store
\* of a section generated now.
OnlyExpiryOrFreshStore ==
    \A k \in DOMAIN c_cache :
        \/ k \in DOMAIN c_cache' /\ c_cache'[k] = c_cache[k]
        \/ /\ k \notin DOMAIN c_cache'
           /\ c_now - c_cache[k].generated_at > CONTEXT_CACHE_TTL_SECONDS
           /\ \E call \in c_pending' \ c_pending :
                 cache_key(call.session_id, call.identifier) = k
        \/ /\ k \in DOMAIN c_cache'
           /\ c_cache'[k].generated_at = c_now
           /\ BuilderReturned

\* A lookup that finds an entry older than the TTL removes it and leaves
\* the call waiting for its builder.
ExpiredIsRebuilt ==
    \A call \in c_pending' \ c_pending :
        call.expired => cache_key(call.session_id, call.identifier)
                            \notin DOMAIN c_cache'

\* C24 (as stated): every call that went to its builder ends with the fresh
\* section stored under its key.
C24_BuilderResultStored ==
    [][BuilderReturned =>
          /\ ReturningKey \in DOMAIN c_cache'
          /\ c_cache'[ReturningKey] =
                ContextSection(Returning.session_id, Returning.identifier, c_now)]_vars

\* C24 (amended): sections are served only within the TTL; an expired entry
\* is removed by the lookup and its call goes to the builder; a section the
\* builder returns is stored under the call's key, and when the builder
\* returns None the cache is left as it is; nothing else removes or
\* replaces an entry.
C24_CacheContract ==
    [][/\ ServedWithinTtl
       /\ ExpiredIsRebuilt
       /\ OnlyExpiryOrFreshStore
       /\ BuilderReturned =>
             \/ /\ c_last'.kind = "built"
                /\ ReturningKey \in DOMAIN c_cache'
                /\ c_cache'[ReturningKey] =
                      ContextSection(Returning.session_id,
                                     Returning.identifier, c_now)
             \/ /\ c_last'.kind = "unbuilt"
                /\ c_cache' = c_cache]_vars

\* C24 witness: a call found an expired entry and its builder's section is
\* in the cache, and a section has been served at the age of the TTL.
C24_Witness ==
    /\ c_last.kind = "built"
    /\ c_last.expired
    /\ cache_key(c_last.session_id, c_last.identifier) \in DOMAIN c_cache
    /\ c_cache[cache_key(c_last.session_id, c_last.identifier)].generated_at = c_now

\* The grade guarantees of one scenario, from its final grade, its source,
\* its risk and the rewards to its first and second target.
GradeGuarantees(q, is_continuation, risk, first_reward, second_reward) ==
    /\ q \in {"A", "B", "C+", "C"} =>
          first_reward >= 2 * risk \/ 2 * second_reward >= 3 * risk
    /\ (is_continuation /\ q = "B") => 2 * first_reward >= 3 * risk
    /\ (is_continuation /\ 2 * first_reward < 3 * risk) =>
          q = (IF first_reward < risk THEN "INVALID" ELSE "C-")

\* C25: every returned scenario graded A, B, C+ or C has a first-target
\* reward/risk of at least 2.0 or a second-target reward/risk of at least
\* 1.5; a continuation scenario graded B has a first-target reward/risk of
\* at least 1.5, and one below 1.5 is graded C-, or INVALID below 1.0.
C25_GradeGuarantees ==
    Built =>
        /\ GradeGuarantees(b_long.setup_quality, b_long.is_continuation,
                           LongRisk(b_long), LongReward(b_long, 1), LongReward(b_long, 2))
        /\ GradeGuarantees(b_short.setup_quality, b_short.is_continuation,
                           ShortRisk(b_short), ShortReward(b_short, 1), ShortReward(b_short, 2))

\* C25 witness: a continuation long scenario downgraded to C- although its
\* second target pays at least 1.5 times the risk, next to a short scenario
\* that keeps a tradable grade through its second target.
C25_Witness ==
    /\ Built
    /\ b_long.is_continuation
    /\ b_long.setup_quality = "C-"
    /\ LongReward(b_long, 1) >= LongRisk(b_long)
    /\ 2 * LongReward(b_long, 1) < 3 * LongRisk(b_long)
    /\ 2 * LongReward(b_long, 2) >= 3 * LongRisk(b_long)

\* The stored form of a built scenario, as the validator reads it.
StoredPlan(s) ==
    [kind |-> "dict", high |-> Some(s.entry_zone.high), low |-> Some(s.entry_zone.low),
     stop_loss |-> Some(s.stop_loss), invalidation |-> Some(s.invalidation)]

\* Prices inside the entry zone of a scenario: its edges and its middle.
EntryZonePrices(s) ==
    {s.entry_zone.low, s.entry_zone.high,
     s.entry_zone.low + (s.entry_zone.high - s.entry_zone.low) \div 2}

\* C27: the entry zone of every built scenario lies strictly on the safe
\* side of its stop_loss and of its invalidation (long: entry_low above
\* both; short: entry_high below both), so the validator answers ACTIVE,
\* never INVALIDATED, for every price inside the zone.
C27_ZoneOnSafeSide ==
    Built =>
        /\ b_long.entry_zone.low > b_long.stop_loss
        /\ b_long.entry_zone.low > b_long.invalidation
        /\ b_short.entry_zone.high < b_short.stop_loss
        /\ b_short.entry_zone.high < b_short.invalidation
        /\ \A p \in EntryZonePrices(b_long) :
              validate_plan_status(StoredPlan(b_long), p, "long").status = "ACTIVE"
        /\ \A p \in EntryZonePrices(b_short) :
              validate_plan_status(StoredPlan(b_short), p, "short").status = "ACTIVE"

\* C28: whichever stage produced the entry, the stop lies strictly beyond
\* the entry zone on the adverse side (long: below entry_low; short: above
\* entry_high), before and after rounding, and the risk the builder divides
\* by is strictly positive.
C28_StopBeyondZone ==
    Built =>
        /\ b_long.raw_stop_loss < b_long.entry_low
        /\ b_long.stop_loss < b_long.entry_zone.low
        /\ b_long.risk = b_long.entry_high - b_long.raw_stop_loss
        /\ b_long.risk > 0
        /\ b_short.raw_stop_loss > b_short.entry_high
        /\ b_short.stop_loss > b_short.entry_zone.high
        /\ b_short.risk = b_short.raw_stop_loss - b_short.entry_low
        /\ b_short.risk > 0

\* C28 witness: a market-execution long, whose zone is the single price,
\* next to a short built on a selected FVG.
C28_Witness ==
    /\ Built
    /\ Stage(b_long) = "market_execution"
    /\ b_long.entry_high = b_long.entry_low
    /\ b_long.risk = 2 * ONE
    /\ Stage(b_short) \in {"ideal", "continuation"}
    /\ b_short.risk > 0

(***************************************************************************)
(* Further properties of the Plan Validator (checked under SpecValidator)  *)
(***************************************************************************)

ReturnedStatuses == {"N/A", "INVALIDATED", "ACTIVE", "WAITING"}

\* C29: over all scenarios, prices and directions, a status the validator
\* returns is one of N/A, INVALIDATED, ACTIVE and WAITING; MISSED is never
\* returned, also not for a price beyond the entry zone on the favourable
\* side.
C29_MissedUnreachable ==
    v_call.made =>
        /\ v_result.status # "MISSED"
        /\ ~v_result.raised => v_result.status \in ReturnedStatuses

\* C29 witness: a complete long scenario and a price above its entry zone
\* and above its stop and invalidation, answered WAITING.
C29_Witness ==
    /\ v_call.made
    /\ v_call.direction = "long"
    /\ v_plan.kind = "dict"
    /\ Truthy(v_plan.high) /\ Truthy(v_plan.low) /\ Truthy(v_plan.stop_loss)
    /\ v_plan.invalidation.some
    /\ v_call.price > v_plan.high.v
    /\ v_call.price > v_plan.stop_loss.v
    /\ v_call.price > v_plan.invalidation.v
    /\ v_result.status = "WAITING"

(***************************************************************************)
(* Further properties of the FVG Detector (checked under SpecFvg)          *)
(***************************************************************************)

\* C30: on bars with low <= close <= high, every emitted FVG that is
\* invalidated is mitigated too, and an FVG formed on the last bar of the
\* series has both flags false.
C30_InvalidatedImpliesMitigated ==
    \A g \in FvgSet :
        /\ g.invalidated => g.mitigated
        /\ g.timestamp = Len(f_df) => (~g.mitigated /\ ~g.invalidated)

\* C30 witness: one result holds an FVG that a later close has invalidated
\* (and a wick therefore mitigated) and an FVG formed on the last bar.
C30_Witness ==
    /\ \A i \in 1..Len(f_df) :
          f_df[i].low <= f_df[i].close /\ f_df[i].close <= f_df[i].high
    /\ \E g \in FvgSet : g.invalidated /\ g.mitigated
    /\ \E g \in FvgSet :
          g.timestamp = Len(f_df) /\ ~g.mitigated /\ ~g.invalidated

(***************************************************************************)
(* Properties of the data fetcher (checked under SpecFetch)                *)
(***************************************************************************)

\* C26: at most 3 HTTP attempts; a retry only after a 500/502/503/504
\* status or a timeout/protocol error, after a wait of 2^attempt seconds
\* (1 s, then 2 s); and when all 3 attempts have failed with such errors
\* the call returns mock data instead of raising.
C26_RetryThenMock ==
    /\ Len(h_history) <= max_retries
    /\ \A i \in 1..(Len(h_history) - 1) : Retryable(h_history[i])
    /\ \A i \in 1..Len(h_waits) : h_waits[i] = Pow2(i - 1)
    /\ Len(h_waits) <= 2
    /\ (/\ h_pc = "done"
        /\ Len(h_history) = max_retries
        /\ \A i \in 1..max_retries : Retryable(h_history[i]))
          => h_outcome = "mock"
====
